---- MODULE Spec2Model ----
(***************************************************************************)
(* A model of asuka's build/install orchestration (src/asuka/build.py):    *)
(*   - BaseBuild.services: discovery and ordering of service manifests,    *)
(*   - Build.install: the main line and the bootstrap worker thread,       *)
(*   - BaseBuild.terminate_instances / Build.replaced_instances,           *)
(*   - Clean.uninstall,                                                    *)
(* of the SSH session of an instance (src/asuka/instance.py) and of the    *)
(* Route 53 records of the load balancer service                           *)
(* (src/asuka/services/elb.py).                                            *)
(***************************************************************************)
EXTENDS Integers, Sequences, FiniteSets, TLC

(***************************************************************************)
(* Bounds of the model.                                                    *)
(***************************************************************************)
\* the largest number of `depends` edges a manifest set declares
MaxEdges == 4

\* the largest number of shell commands in one pre_install / post_install
MaxCmds == 1

\* the service names manifests are drawn from (SERVICE_FILENAME_PATTERN names)
Names == {"web", "worker", "db", "elb"}

VARIABLES
    \* ---- BaseBuild.services ----
    manifests,          \* name -> the parsed *.yml file of that name
    order,              \* the iteration order of service_dicts.iteritems()
    resolved,           \* what the services property produced (NotCalled before)
    \* ---- Build.install ----
    kind,               \* "Build", "Promote" or "Clean"
    zone,               \* whether route53_hosted_zone_id is set
    records,            \* the service names route53_records maps
    mpc,                \* the main line's position in install
    wpc,                \* the bootstrap worker's position in setup_instance
    ready,              \* service_manifests[0]
    service_manifests,  \* service_manifests[1:]
    holder,             \* who holds the lock of service_manifests_available
    k,                  \* the index of the main line's current loop
    tags,               \* the tags of the instance the build installs onto
    mlog,               \* what the main line has done, in order
    wlog,               \* what the bootstrap worker has done, in order
    service_values,     \* the service_values dict of install
    values_json,        \* the content of the remote values.json
    todo,               \* the route53_records items not yet iterated
    changes,            \* the number of changes in the Route 53 changeset
    commits,            \* the number of changeset.commit() calls made
    fleet,              \* tags of the other instances the EC2 lookup saw
    terminated,         \* the ids passed to ec2_connection.terminate_instances
    \* ---- Instance (instance.py), one thread ----
    sdepth,             \* self.local.depth
    stack,              \* the thread's open scopes: "with" blocks and do() calls
    spc,                \* where the thread is
    entering,           \* what called __enter__ or wait_state
    client,             \* self.local.client
    trial,              \* trial of __enter__
    attempts,           \* the connect() calls of the current __enter__
    sleeps,             \* the seconds slept by the current __enter__
    opens,              \* the connections opened and authenticated so far
    closes,             \* the close() calls so far
    ncalls,             \* the calls the thread has made so far
    istate,             \* self.instance.state
    wargs,              \* <<timeout, tick>> of the current wait_state call
    elapsed,            \* time.time() - start of the current wait_state call
    wtrial,             \* trial of wait_state
    polls,              \* the instance.update() calls of the current wait_state
    serr,               \* the exception that propagates, or the last one caught
    \* ---- ELBService.route_domain / remove_domain (elb.py) ----
    dname,              \* the name passed to route_domain / remove_domain
    dzone,              \* the record sets of the hosted zone, in listing order
    dchanges,           \* records.changes, the changeset
    dpc,                \* what has been called so far
    dbefore,            \* the zone and the changeset of the first call
    \* ---- Branch, PullRequest and find_by_label (branch.py) ----
    ba,                 \* a branch object
    bb,                 \* another branch object, once the two are compared
    blabel,             \* the label string passed to find_by_label
    bfound,             \* what find_by_label returned or raised
    bcmp,               \* ba == bb, hash(ba) and hash(bb)
    bpc,                \* what has been called so far
    \* ---- Metadata, the tags of an instance (instance.py) ----
    ec2tags,            \* the tags of the instance at the provider
    cached,             \* instance.instance.tags, the tag map kept locally
    top,                \* the Metadata call that runs
    tpc,                \* where that call is
    tbefore,            \* the local tag map when the call began
    treturned,          \* the provider's API call of the call has returned
    terr,               \* the exception that left the call
    tdone,              \* the calls made so far
    \* ---- Instance.do / Instance.sudo (instance.py) ----
    scall,              \* "do" or "sudo": the method called last
    sstatus,            \* <<channel.recv_exit_status()>> of the command
    sret,               \* <<the value the call returned>>
    \* ---- Dist.bundle_package (dist.py) ----
    bcache,             \* the argument cache of the call
    cache_file,         \* os.path.isfile(cache_path)
    retrial,            \* retrial of the call
    bruns,              \* the bundle.run() calls of the call
    index_url,          \* options.index_url, as an index of PYPI_INDEX_URLS
    extra_index_urls,   \* options.extra_index_urls, as indices
    bslept,             \* the time.sleep() calls of the call, in order
    build_dir,          \* os.path.isdir(options.build_dir)
    bundpc,             \* where the call is
    bderr,              \* the exception that left the call
    bcalls,             \* the calls made so far
    \* ---- Branch.fetch / PullRequest.fetch (branch.py) ----
    fcls,               \* the class of the branch object that fetches
    fetched_paths,      \* the refs that are keys of self.fetched_paths
    fstack,             \* the fetch scopes that are open, outermost first
    tree,               \* what the working tree is checked out at
    lastgit,            \* the git commands that the last step ran
    fmixed,             \* a scope of another ref was opened inside a scope
    \* ---- the web hook and the pool workers (web.py) ----
    wqueue,             \* the tasks handed to pool.apply_async, not yet taken
    wrunning,           \* the worker function that a pool process runs
    wresponses,         \* the responses the server has sent, in order
    wraised,            \* the exceptions install / uninstall have raised
    wlogged,            \* the logger.exception() calls of the worker functions
    wresults,           \* how the tasks that are over have ended, in order
    wreq,               \* the requests handled so far
    \* ---- two builds of one branch at the same time (web.py, build.py) ----
    pkind,              \* the class of the two builds
    pref,               \* commit.ref of each build
    ppc,                \* where each build is
    ptags,              \* the tags EC2 holds for the instances of the builds
    pterm,              \* the instances each build has terminated
    \* ---- Instance.sftp (instance.py) on one thread ----
    xdepth,             \* self.local.depth
    xclient,            \* self.local.client: the number of its connection, 0 if none
    xopens,             \* the connections opened so far
    sftp_depth,         \* self.local.sftp_depth
    sftp_client,        \* self.local.sftp_client
    xstack,             \* the scopes the thread is in, outermost first
    xpc,                \* the thread runs or an exception propagates
    xcalls,             \* the scopes entered so far
    \* ---- one Instance used by two threads (instance.py, build.py) ----
    ldepth,             \* depth of each namespace of self.local
    lclient,            \* client of each namespace: its connection, 0 if none
    lconns,             \* the connections that are open
    lnext,              \* the connections opened so far
    lheld,              \* the clients each thread's open scopes were given
    lcalls,             \* the scopes each thread has asked for so far
    \* ---- the hosted zones of the app and a build's changeset (elb.py, build.py) ----
    zkind,              \* the class of the build
    zname,              \* the domain passed to route_domain / remove_domain
    zzones,             \* the hosted zones of the account, by zone id
    zscope,             \* the hosted zone id of the changeset
    zlooked,            \* the zone id the call passed to the Route 53 connection
    zchanges,           \* the changes of the changeset
    zpc,                \* what has been called
    \* ---- the exit statuses of the commands of Build.install (build.py) ----
    nonzero             \* whether a command of the run has exited non-zero

svcVars == <<manifests, order, resolved>>

buildVars == <<kind, zone, records>>

installVars == <<mpc, wpc, ready, service_manifests, holder, k, tags, mlog, wlog,
                 service_values, values_json, todo, changes, commits, fleet,
                 terminated>>

sessVars == <<sdepth, stack, spc, entering, client, trial, attempts, sleeps, opens,
              closes, ncalls, istate, wargs, elapsed, wtrial, polls, serr>>

r53Vars == <<dname, dzone, dchanges, dpc, dbefore>>

brVars == <<ba, bb, blabel, bfound, bcmp, bpc>>

mtVars == <<ec2tags, cached, top, tpc, tbefore, treturned, terr, tdone>>

doVars == <<scall, sstatus, sret>>

bdVars == <<bcache, cache_file, retrial, bruns, index_url, extra_index_urls, bslept, build_dir,
           bundpc, bderr, bcalls>>

ftVars == <<fcls, fetched_paths, fstack, tree, lastgit, fmixed>>

wbVars == <<wqueue, wrunning, wresponses, wraised, wlogged, wresults, wreq>>

prVars == <<pkind, pref, ppc, ptags, pterm>>

sfVars == <<xdepth, xclient, xopens, sftp_depth, sftp_client, xstack, xpc, xcalls>>

thVars == <<ldepth, lclient, lconns, lnext, lheld, lcalls>>

znVars == <<zkind, zname, zzones, zscope, zlooked, zchanges, zpc>>

exVars == <<nonzero>>

\* the parts of the program that are modelled each on its own
moreVars == <<brVars, mtVars, doVars, bdVars, ftVars, wbVars, prVars, sfVars, thVars, znVars, exVars>>

\* what the build's own steps leave alone
extVars == <<sessVars, r53Vars, moreVars>>

coreVars == <<svcVars, buildVars, installVars, sessVars, r53Vars>>

vars == <<svcVars, buildVars, installVars, sessVars, r53Vars, moreVars>>

NoError == [type |-> "none"]

\* no thread uses the instance
SessIdle ==
    /\ sdepth = 0 /\ stack = <<>> /\ spc = "idle" /\ entering = "none"
    /\ client = "none" /\ trial = 1 /\ attempts = 0 /\ sleeps = 0 /\ opens = 0
    /\ closes = 0 /\ ncalls = 0 /\ istate = "running" /\ wargs = <<0, 0>>
    /\ elapsed = 0 /\ wtrial = 1 /\ polls = 0 /\ serr = NoError

\* no domain is routed
R53Idle ==
    /\ dname = "" /\ dzone = <<>> /\ dchanges = <<>> /\ dpc = "idle" /\ dbefore = <<>>

NotCalled == [called |-> FALSE]

\* no branch is looked up or compared
BranchIdle ==
    /\ ba = NotCalled /\ bb = NotCalled /\ blabel = <<>> /\ bfound = NotCalled
    /\ bcmp = NotCalled /\ bpc = "idle"

\* no tag is written
MetaIdle ==
    /\ ec2tags = <<>> /\ cached = <<>> /\ top = NotCalled /\ tpc = "idle"
    /\ tbefore = <<>> /\ treturned = FALSE /\ terr = "none" /\ tdone = 0

\* no command has been run
DoIdle == scall = "none" /\ sstatus = <<>> /\ sret = <<>>

\* no package is bundled
BundleIdle ==
    /\ bcache = FALSE /\ cache_file = FALSE /\ retrial = 0 /\ bruns = 0 /\ index_url = 0
    /\ extra_index_urls = <<>> /\ bslept = <<>> /\ build_dir = FALSE /\ bundpc = "idle"
    /\ bderr = "none" /\ bcalls = 0

\* no source tree is fetched
FetchIdle ==
    /\ fcls = "none" /\ fetched_paths = {} /\ fstack = <<>> /\ tree = <<"none", "">>
    /\ lastgit = 0 /\ fmixed = FALSE

\* no request is served
WebIdle ==
    /\ wqueue = <<>> /\ wrunning = [task |-> "none"] /\ wresponses = <<>> /\ wraised = 0
    /\ wlogged = 0 /\ wresults = <<>> /\ wreq = 0

\* no pair of builds runs
PairIdle ==
    pkind = "Build" /\ pref = <<>> /\ ppc = <<>> /\ ptags = <<>> /\ pterm = <<>>

\* no thread uses sftp()
SftpIdle ==
    /\ xdepth = 0 /\ xclient = 0 /\ xopens = 0 /\ sftp_depth = 0
    /\ sftp_client = [conn |-> 0, open |-> FALSE]
    /\ xstack = <<>> /\ xpc = "idle" /\ xcalls = 0

\* no thread shares an Instance
ThreadsIdle ==
    /\ ldepth = <<>> /\ lclient = <<>> /\ lconns = {} /\ lnext = 0
    /\ lheld = <<>> /\ lcalls = <<>>

\* no changeset is scoped to a zone
ZonesIdle ==
    /\ zkind = "Build" /\ zname = "" /\ zzones = <<>> /\ zscope = "" /\ zlooked = ""
    /\ zchanges = <<>> /\ zpc = "idle"

\* the exit statuses of the commands are not observed
ExitIdle ==
    nonzero = "unobserved"

MoreIdle == BranchIdle /\ MetaIdle /\ DoIdle /\ BundleIdle /\ FetchIdle /\ WebIdle /\ PairIdle /\ SftpIdle /\ ThreadsIdle /\ ZonesIdle /\ ExitIdle

\* what the steps of each of these parts leave alone
brRest == <<coreVars, mtVars, doVars, bdVars, ftVars, wbVars, prVars, sfVars, thVars, znVars, exVars>>

mtRest == <<coreVars, brVars, doVars, bdVars, ftVars, wbVars, prVars, sfVars, thVars, znVars, exVars>>

sessRest == <<svcVars, buildVars, installVars, r53Vars, brVars, mtVars, bdVars, ftVars, wbVars, prVars, sfVars, thVars, znVars, exVars>>

bdRest == <<coreVars, brVars, mtVars, doVars, ftVars, wbVars, prVars, sfVars, thVars, znVars, exVars>>

ftRest == <<coreVars, brVars, mtVars, bdVars, doVars, wbVars, prVars, sfVars, thVars, znVars, exVars>>

wbRest == <<coreVars, brVars, mtVars, bdVars, ftVars, doVars, prVars, sfVars, thVars, znVars, exVars>>

prRest == <<coreVars, brVars, mtVars, bdVars, ftVars, wbVars, doVars, sfVars, thVars, znVars, exVars>>

sfRest == <<coreVars, brVars, mtVars, bdVars, ftVars, wbVars, prVars, doVars, thVars, znVars, exVars>>

thRest == <<coreVars, brVars, mtVars, bdVars, ftVars, wbVars, prVars, sfVars, doVars, znVars, exVars>>

znRest == <<coreVars, brVars, mtVars, bdVars, ftVars, wbVars, prVars, sfVars, thVars, doVars, exVars>>

exRest == <<coreVars, brVars, mtVars, bdVars, ftVars, wbVars, prVars, sfVars, thVars, znVars, doVars>>

\* the classes a manifest's `type` may name; ELBService is the DomainService
ServiceTypes == {"wsgi", "worker", "pgsql", "elb"}

TypeOf(n) == CASE n = "web" -> "wsgi" [] n = "worker" -> "worker"
               [] n = "db" -> "pgsql" [] OTHER -> "elb"

(***************************************************************************)
(* BaseBuild.services                                                      *)
(***************************************************************************)
\* the sequences listing each element of S exactly once
Perms(S) ==
    {s \in [1..Cardinality(S) -> S] : \A i, j \in 1..Cardinality(S) : s[i] = s[j] => i = j}

\* lines 100-109: the files that matched and popped a true `enabled`
ServiceDicts(m) == {n \in DOMAIN m : m[n].enabled}

\* service_dict.get('depends', ())
Depends(m, n) == m[n].depends

\* lines 147-151: create_service raises when the manifest's type is missing
\* or names no class; visit re-raises the error with the name prefixed
CreateServiceRaises(d) == d.type \notin ServiceTypes

\* lines 133-161 and service.py 63-86: the service object of a manifest
create_service(name, d) ==
    [name |-> name, type |-> d.type,
     pre_install |-> d.pre_install, post_install |-> d.post_install]

\* Reverse as it would be had line 129 been left out
ReverseForgotten(s) == s

\* the reverse of a sequence (result[::-1])
Reverse(s) == [i \in 1..Len(s) |-> s[Len(s) + 1 - i]]

RECURSIVE visit(_, _, _, _)
RECURSIVE visitDependents(_, _, _, _, _)

\* lines 114-125: st = [visited, result, raised]
visit(m, ord, name, st) ==
    IF st.raised \/ name \in st.visited THEN st
    ELSE LET st1 == [st EXCEPT !.visited = @ \cup {name}]
             st2 == visitDependents(m, ord, name, 1, st1)
         IN  IF st2.raised THEN st2
             ELSE IF CreateServiceRaises(m[name])
                  THEN [st2 EXCEPT !.raised = TRUE]
                  ELSE [st2 EXCEPT !.result = Append(@, create_service(name, m[name]))]

\* lines 118-120: the loop over service_dicts.iteritems() inside visit
visitDependents(m, ord, name, i, st) ==
    IF i > Len(ord) \/ st.raised THEN st
    ELSE LET d == ord[i]
             st1 == IF name \in Depends(m, d) THEN visit(m, ord, d, st) ELSE st
         IN  visitDependents(m, ord, name, i + 1, st1)

RECURSIVE visitRoots(_, _, _, _)
\* lines 126-128: the loop that starts a visit at every manifest without depends
visitRoots(m, ord, i, st) ==
    IF i > Len(ord) \/ st.raised THEN st
    ELSE LET n == ord[i]
             st1 == IF Depends(m, n) = {} THEN visit(m, ord, n, st) ELSE st
         IN  visitRoots(m, ord, i + 1, st1)

\* lines 88-131: the services property; ord is the iteration order of the
\* service_dicts mapping
services(m, ord) ==
    LET st == visitRoots(m, ord, 1, [visited |-> {}, result |-> <<>>, raised |-> FALSE])
    IN  [called |-> TRUE,
         raised |-> st.raised,
         list   |-> IF st.raised THEN <<>> ELSE Reverse(st.result)]

(***************************************************************************)
(* Build.install: the build, its instance and the other instances.         *)
(***************************************************************************)
AppName == "app"

BranchLabel == "branch-foo"

\* commit refs and Commit tag values are strings of characters
RefA == <<"a">>

RefB == <<"b">>

\* build.commit.ref of the build that runs
CommitRef == RefB

OwnId == "i-new"

OtherIds == {"i-1", "i-2"}

NoTags == [t \in {} |-> ""]

\* lines 448-455 and 541-543: Build.live and Promote.live
live(kd) == IF kd = "Promote" THEN "live" ELSE ""

\* lines 439-446 and 537-539: instance_name
instance_name(kd) == IF kd = "Promote" THEN "app-live-b" ELSE "app-branch-foo-b"

\* dict.update: the entries of u replace or extend those of t
Update(t, u) ==
    [x \in DOMAIN t \cup DOMAIN u |-> IF x \in DOMAIN u THEN u[x] ELSE t[x]]

\* tags.get(name, ''); the empty string of a Commit tag is the empty sequence
Get(t, name) ==
    IF name \in DOMAIN t THEN t[name] ELSE IF name = "Commit" THEN <<>> ELSE ""

\* lines 457-473: the tags update_instance_metadata sets, extra tags included
update_instance_metadata(kd, t, extra) ==
    Update(t, Update([Name   |-> instance_name(kd),
                      App    |-> AppName,
                      Branch |-> BranchLabel,
                      Commit |-> CommitRef,
                      Live   |-> live(kd)], extra))

\* instance.py 489-492: tags[name] = value
SetTag(t, name, value) == Update(t, [x \in {name} |-> value])

Whitespace == {" ", "\n"}

RECURSIVE LStrip(_)
LStrip(s) == IF s # <<>> /\ Head(s) \in Whitespace THEN LStrip(Tail(s)) ELSE s

RECURSIVE RStrip(_)
RStrip(s) ==
    IF s # <<>> /\ s[Len(s)] \in Whitespace THEN RStrip(SubSeq(s, 1, Len(s) - 1)) ELSE s

\* str.strip() of line 481
Strip(s) == RStrip(LStrip(s))

\* lines 186-194: the instances the EC2 filter {tag:App, tag:Branch} returns;
\* world maps instance ids to tags
BaseReplacedInstances(world) ==
    {i \in DOMAIN world : /\ Get(world[i], "App") = AppName
                          /\ Get(world[i], "Branch") = BranchLabel}

\* replaced_instances as it would be without the comparison of the Live tag
replaced_instances_any_live(kd, world) ==
    {i \in BaseReplacedInstances(world) : Strip(Get(world[i], "Commit")) # CommitRef}

\* lines 475-483: Build.replaced_instances
replaced_instances(kd, world) ==
    {i \in BaseReplacedInstances(world) :
        /\ Strip(Get(world[i], "Commit")) # CommitRef
        /\ Get(world[i], "Live") = live(kd)}

\* lines 201-210: the ids terminate_instances terminates; an EC2ResponseError
\* of the lookup or of the call is logged and swallowed
terminate_instances(kd, world, ec2_error) ==
    IF ec2_error THEN {} ELSE replaced_instances(kd, world)

\* the tags another instance of the account can carry: none, or those an
\* earlier build or promotion wrote with update_instance_metadata
TagSets ==
    {NoTags} \cup
    {[App |-> a, Branch |-> b, Commit |-> c, Live |-> l, Status |-> "done"] :
        a \in {AppName, "other-app"}, b \in {BranchLabel, "branch-bar"},
        c \in {RefA, RefB}, l \in {"", "live"}}

Fleets == [OtherIds -> TagSets]

\* the fleets a build meets: an earlier build of the branch and a promotion
BuildFleets ==
    {f \in Fleets : /\ "i-1" \in BaseReplacedInstances(f) /\ f["i-1"].Live = ""
                    /\ "i-2" \in BaseReplacedInstances(f) /\ f["i-2"].Live = "live"}

\* what the EC2 lookup sees: the other instances and the build's own
World(f, own) == Update(f, [x \in {OwnId} |-> own])

(***************************************************************************)
(* The manifest sets the resolver is run on.                               *)
(***************************************************************************)
Edges == {e \in Names \X Names : e[1] # e[2]}

EdgeSets == {E \in SUBSET Edges : Cardinality(E) <= MaxEdges}

\* the commands of a hook: <<name, "pre", 1>>, ...
Cmds(n, hook, c) == [i \in 1..c |-> <<n, hook, i>>]

\* the manifests of the files, of which en are enabled, bad carry an unusable
\* type and <<a, b>> in E says that b lists a in its depends; pre and post
\* give the number of hook commands of each
ManifestOf(files, en, E, bad, pre, post) ==
    [n \in files |-> [enabled      |-> n \in en,
                      depends      |-> {e[1] : e \in {x \in E : x[2] = n}},
                      type         |-> IF n \in bad THEN "missing" ELSE TypeOf(n),
                      pre_install  |-> Cmds(n, "pre", pre[n]),
                      post_install |-> Cmds(n, "post", post[n])]]

NoHooks == [n \in Names |-> 0]

\* all files present, or one of them missing
FileSets == {Names} \cup {Names \ {n} : n \in Names}

\* no build runs
InstallIdle ==
    /\ kind = "Build" /\ zone = FALSE /\ records = {}
    /\ mpc = "idle" /\ wpc = "idle" /\ ready = FALSE /\ service_manifests = <<>>
    /\ holder = "none" /\ k = 1 /\ tags = NoTags /\ mlog = <<>> /\ wlog = <<>>
    /\ service_values = NoTags /\ values_json = {} /\ todo = {}
    /\ changes = 0 /\ commits = 0 /\ fleet = NoTags /\ terminated = {}

SvcInit ==
    /\ \E files \in FileSets :
       \E en \in SUBSET files :
       \E E \in {X \in EdgeSets : \A e \in X : e[2] \in files} :
       \E bad \in SUBSET (en \cap {"db"}) :
            manifests = ManifestOf(files, en, E, bad, NoHooks, NoHooks)
    /\ order \in Perms(ServiceDicts(manifests))
    /\ resolved = NotCalled
    /\ InstallIdle
    /\ SessIdle /\ R53Idle /\ MoreIdle

\* a read of build.services
Resolve ==
    /\ ~resolved.called
    /\ resolved' = services(manifests, order)
    /\ UNCHANGED <<manifests, order, buildVars, extVars, installVars>>

SvcNext == Resolve

SpecServices == SvcInit /\ [][SvcNext]_vars

(***************************************************************************)
(* Build.install (lines 267-437)                                           *)
(***************************************************************************)
\* the manifest sets of the commit a build installs
InstallManifests ==
    {ManifestOf(Names, en, {<<"web", "worker">>, <<"web", "elb">>}, bad, pre, post) :
        en \in {{"web", "worker"}, {"web", "worker", "elb"}},
        bad \in {{}, {"db"}, {"elb"}},
        pre \in {[n \in Names |-> c] : c \in 0..MaxCmds},
        post \in {[n \in Names |-> c] : c \in 0..MaxCmds}}

\* the route53_records mappings of the app, by the service names they map
RecordSets == {{}, {"elb"}, {"web", "elb"}}

\* the number of changes one route_domain call adds to the changeset
RouteChanges == {0, 1, 2}

InstallInit ==
    /\ manifests = NoTags /\ order = <<>> /\ resolved = NotCalled
    /\ kind \in {"Build", "Promote"}
    /\ zone \in BOOLEAN
    /\ records \in RecordSets
    /\ mpc = "start_worker" /\ wpc = "idle" /\ ready = FALSE /\ service_manifests = <<>>
    /\ holder = "none" /\ k = 1 /\ tags = NoTags /\ mlog = <<>> /\ wlog = <<>>
    /\ service_values = NoTags /\ values_json = {} /\ todo = {}
    /\ changes = 0 /\ commits = 0 /\ fleet = NoTags /\ terminated = {}
    /\ SessIdle /\ R53Idle /\ MoreIdle

valVars == <<service_values, values_json>>

dnsVars == <<todo, changes, commits>>

ec2Vars == <<fleet, terminated>>

handoffVars == <<ready, service_manifests, holder>>

ServiceNames(list) == [i \in 1..Len(list) |-> list[i].name]

RECURSIVE FlattenBackwards(_, _)
\* Flatten as it would be if the hook loops ran over the services in reverse
FlattenBackwards(list, hook) ==
    IF list = <<>> THEN <<>>
    ELSE FlattenBackwards(Tail(list), hook)
         \o (IF hook = "pre" THEN Head(list).pre_install ELSE Head(list).post_install)

RECURSIVE Flatten(_, _)
\* the commands of a hook of all services, in the order the nested loops of
\* lines 388-390 and 408-410 run them
Flatten(list, hook) ==
    IF list = <<>> THEN <<>>
    ELSE (IF hook = "pre" THEN Head(list).pre_install ELSE Head(list).post_install)
         \o Flatten(Tail(list), hook)

\* service.py 158: isinstance(service, DomainService)
IsDomainService(svc) == svc.type = "elb"

\* elb.py 90-93: the services that require an APT repository
RequiresAptRepository(svc) == svc.type = "elb"

\* an exception leaves install at the current step of the main line
Raise ==
    /\ mpc' = "failed"
    /\ mlog' = Append(mlog, <<"raised", mpc>>)

\* the main line moves from one step to the next and logs what it did
MainStep(from, to, entry) ==
    /\ mpc = from
    /\ mpc' = to
    /\ mlog' = IF entry = <<>> THEN mlog ELSE Append(mlog, entry)

\* line 345: instance_setup_worker.start()
StartWorker ==
    /\ MainStep("start_worker", "tag_started", <<>>)
    /\ wpc' = "enter"
    /\ UNCHANGED <<svcVars, buildVars, extVars, handoffVars, k, tags, wlog, valVars, dnsVars, ec2Vars>>

\* line 347: update_instance_metadata({'Status': 'started'})
TagStarted ==
    /\ MainStep("tag_started", "fetch_services", <<"tag", "started">>)
    /\ tags' = update_instance_metadata(kind, tags, [Status |-> "started"])
    /\ UNCHANGED <<svcVars, buildVars, extVars, wpc, handoffVars, k, wlog, valVars, dnsVars, ec2Vars>>

\* lines 351-352: service_manifests.extend(self.services), on the manifests
\* m of the fetched commit listed in the order ord; an error of create_service
\* leaves install
FetchServices ==
    /\ mpc = "fetch_services"
    /\ \E m \in InstallManifests :
       \E ord \in Perms(ServiceDicts(m)) :
            resolved' = services(m, ord)
    /\ IF resolved'.raised
       THEN /\ Raise
            /\ UNCHANGED service_manifests
       ELSE /\ mpc' = "set_ready"
            /\ mlog' = mlog
            /\ service_manifests' = resolved'.list
    /\ UNCHANGED <<manifests, order, buildVars, extVars, wpc, ready, holder, k, tags, wlog,
                   valVars, dnsVars, ec2Vars>>

\* line 353: service_manifests[0] = True
SetReady ==
    /\ MainStep("set_ready", "lock_cond", <<>>)
    /\ ready' = TRUE
    /\ UNCHANGED <<svcVars, buildVars, extVars, wpc, service_manifests, holder, k, tags, wlog,
                   valVars, dnsVars, ec2Vars>>

\* line 354: with service_manifests_available
LockCond ==
    /\ holder = "none"
    /\ MainStep("lock_cond", "notify", <<>>)
    /\ holder' = "main"
    /\ UNCHANGED <<svcVars, buildVars, extVars, wpc, ready, service_manifests, k, tags, wlog,
                   valVars, dnsVars, ec2Vars>>

\* Notify as it would be if notify() did not reach a thread that waits
NotifyNobody ==
    /\ MainStep("notify", "stage", <<>>)
    /\ holder' = "none"
    /\ UNCHANGED <<svcVars, buildVars, extVars, wpc, ready, service_manifests, k, tags, wlog,
                   valVars, dnsVars, ec2Vars>>

\* line 355: notify() wakes the worker if it waits; the with block ends
Notify ==
    /\ MainStep("notify", "stage", <<>>)
    /\ wpc' = IF wpc = "waiting" THEN "woken" ELSE wpc
    /\ holder' = "none"
    /\ UNCHANGED <<svcVars, buildVars, extVars, ready, service_manifests, k, tags, wlog,
                   valVars, dnsVars, ec2Vars>>

\* everything but the build and the exit statuses of its commands
sudoRest == <<sessVars, r53Vars, brVars, mtVars, doVars, bdVars, ftVars, wbVars, prVars, sfVars,
              thVars, znVars>>

\* AfterSudo as it would be if install raised on a non-zero exit status
AfterSudoChecked(st, next) == IF st = 0 THEN next ELSE "failed"

\* instance.py 251 and 269: do() and sudo() return the exit status of the
\* command; install calls sudo() as a statement, so whatever the status the
\* next statement runs
AfterSudo(st, next) == next

\* what is known of the exit statuses once a command has exited with st
Seen(st) == IF nonzero = "unobserved" \/ st = 0 THEN nonzero ELSE "yes"

\* a step of the main line that is a sudo() call
MainSudo(from, to, entry) ==
    \E st \in {0, 1, 127} :
        /\ MainStep(from, AfterSudo(st, to), entry)
        /\ nonzero' = Seen(st)
        /\ UNCHANGED <<svcVars, buildVars, sudoRest, wpc, handoffVars, k, tags, wlog, valVars,
                       dnsVars, ec2Vars>>

\* a step of the main line that only runs a command or a transfer
MainCommand(from, to, entry) ==
    /\ MainStep(from, to, entry)
    /\ UNCHANGED <<svcVars, buildVars, extVars, wpc, handoffVars, k, tags, wlog, valVars,
                   dnsVars, ec2Vars>>

\* lines 356-363: the config copy and dist.bundle_package()
Stage == MainCommand("stage", "sftp", <<"stage">>)

\* line 364: with self.instance.sftp()
Sftp == MainCommand("sftp", "put_config", <<"sftp">>)

\* lines 366-370: put_directory of the config files
PutConfig == MainCommand("put_config", "put_package", <<"put_directory">>)

\* line 376: put_file of the package
PutPackage == MainCommand("put_package", "join", <<"put_file">>)

\* Join as it would be if the main line did not wait for the worker
JoinWithoutWaiting == MainCommand("join", "tag_apt_installed", <<"join">>)

\* line 378: instance_setup_worker.join() returns once the thread has ended,
\* by returning or by an exception
Join ==
    /\ wpc \in {"done", "failed"}
    /\ MainCommand("join", "tag_apt_installed", <<"join">>)

\* a step of the main line that writes the Status tag
MainTag(from, to, status) ==
    /\ MainStep(from, to, <<"tag", status>>)
    /\ tags' = SetTag(tags, "Status", status)
    /\ UNCHANGED <<svcVars, buildVars, extVars, wpc, handoffVars, k, wlog, valVars, dnsVars, ec2Vars>>

\* line 379
TagAptInstalled == MainTag("tag_apt_installed", "pip_package", "apt-installed")

\* line 384: pip install of the package
PipPackage == MainSudo("pip_package", "pip_requirements", <<"pip", "package">>)

\* lines 385-386: pip install -I of the services' python packages
PipRequirements == MainSudo("pip_requirements", "tag_installed", <<"pip", "requirements">>)

\* line 387
TagInstalled == MainTag("tag_installed", "pre_install", "installed")

\* a command of a hook loop, or the end of the loop
HookLoop(pc, hook, next) ==
    /\ mpc = pc
    /\ LET cmds == Flatten(service_manifests, hook)
       IN  IF k <= Len(cmds)
           THEN \E st \in {0, 1, 127} :
                    /\ mlog' = Append(mlog, cmds[k])
                    /\ k' = k + 1
                    /\ mpc' = AfterSudo(st, pc)
                    /\ nonzero' = Seen(st)
           ELSE /\ mlog' = mlog
                /\ k' = 1
                /\ mpc' = next
                /\ UNCHANGED nonzero
    /\ UNCHANGED <<svcVars, buildVars, sudoRest, wpc, handoffVars, tags, wlog, valVars, dnsVars, ec2Vars>>

\* lines 388-390: every service's pre_install commands
PreInstall == HookLoop("pre_install", "pre", "values_init")

\* the JSON object of a dict: its members, one key/value pair per key
json_dumps(d) == {<<x, d[x]>> : x \in DOMAIN d}

\* refresh_values as it would be if it wrote the build entry alone
refresh_values_build_only(sv) == json_dumps([x \in {".build"} |-> sv[x]])

\* lines 398-402: json.dumps(service_values) written to values_path
refresh_values(sv) == json_dumps(sv)

\* the keys of a JSON object
JsonKeys(j) == {member[1] : member \in j}

\* lines 391-403: the service_values dict and the first refresh_values()
ValuesInit ==
    /\ mpc = "values_init"
    /\ mpc' = "install"
    /\ service_values' = [x \in {".build"} |-> [commit |-> CommitRef, branch |-> BranchLabel]]
    /\ values_json' = refresh_values(service_values')
    /\ mlog' = Append(mlog, <<"refresh_values", DOMAIN service_values'>>)
    /\ UNCHANGED <<svcVars, buildVars, extVars, wpc, handoffVars, k, tags, wlog, dnsVars, ec2Vars>>

\* lines 404-406: service.install(self.instance) and the entry of its value
Install ==
    /\ mpc = "install"
    /\ IF k <= Len(service_manifests)
       THEN /\ mlog' = Append(mlog, <<"install", service_manifests[k].name>>)
            /\ service_values' = Update(service_values,
                   [x \in {service_manifests[k].name} |-> <<"value", service_manifests[k].name>>])
            /\ mpc' = "refresh"
            /\ k' = k
       ELSE /\ mlog' = mlog
            /\ service_values' = service_values
            /\ mpc' = "post_install"
            /\ k' = 1
    /\ UNCHANGED <<svcVars, buildVars, extVars, wpc, handoffVars, tags, wlog, values_json, dnsVars, ec2Vars>>

\* line 407: refresh_values() after the install of a service
Refresh ==
    /\ mpc = "refresh"
    /\ mpc' = "install"
    /\ k' = k + 1
    /\ values_json' = refresh_values(service_values)
    /\ mlog' = Append(mlog, <<"refresh_values", DOMAIN service_values>>)
    /\ UNCHANGED <<svcVars, buildVars, extVars, wpc, handoffVars, tags, wlog, service_values,
                   dnsVars, ec2Vars>>

\* lines 408-410: every service's post_install commands
PostInstall == HookLoop("post_install", "post", "route53_check")

\* Route53Check as it would be if the zone and the records were not tested
Route53CheckSkipped ==
    /\ MainStep("route53_check", "tag_run", <<>>)
    /\ UNCHANGED <<svcVars, buildVars, extVars, wpc, handoffVars, k, tags, wlog, valVars, dnsVars, ec2Vars>>

\* line 414: if self.route53_hosted_zone_id and self.route53_records
Route53Check ==
    /\ MainStep("route53_check", IF zone /\ records # {} THEN "tag_run" ELSE "tag_done", <<>>)
    /\ UNCHANGED <<svcVars, buildVars, extVars, wpc, handoffVars, k, tags, wlog, valVars, dnsVars, ec2Vars>>

\* lines 415-422: Status 'run' and the new changeset
TagRun ==
    /\ MainStep("tag_run", "route", <<"tag", "run">>)
    /\ tags' = SetTag(tags, "Status", "run")
    /\ todo' = records
    /\ UNCHANGED <<svcVars, buildVars, extVars, wpc, handoffVars, k, wlog, valVars, changes,
                   commits, ec2Vars>>

\* Route as it would be without the isinstance test of line 426: every
\* resolved service is routed
RouteUnchecked ==
    /\ mpc = "route"
    /\ \E n \in todo :
         LET svcs == {service_manifests[i] : i \in 1..Len(service_manifests)}
             found == {svc \in svcs : svc.name = n}
         IN  IF found = {}
             THEN /\ Raise
                  /\ UNCHANGED <<todo, changes>>
             ELSE /\ mpc' = "route"
                  /\ todo' = todo \ {n}
                  /\ \E c \in RouteChanges : changes' = changes + c
                  /\ mlog' = Append(mlog, <<"route_domain", n>>)
    /\ UNCHANGED <<svcVars, buildVars, extVars, wpc, handoffVars, k, tags, wlog, valVars, commits, ec2Vars>>

\* lines 424-431: one item of route53_records; service_map[service_name]
\* raises KeyError for a name that is no resolved service, and a service
\* that is no DomainService raises TypeError
Route ==
    /\ mpc = "route"
    /\ \E n \in todo :
         LET svcs == {service_manifests[i] : i \in 1..Len(service_manifests)}
             found == {svc \in svcs : svc.name = n}
         IN  IF found = {} \/ \E svc \in found : ~IsDomainService(svc)
             THEN /\ Raise
                  /\ UNCHANGED <<todo, changes>>
             ELSE /\ mpc' = "route"
                  /\ todo' = todo \ {n}
                  /\ \E c \in RouteChanges : changes' = changes + c
                  /\ mlog' = Append(mlog, <<"route_domain", n>>)
    /\ UNCHANGED <<svcVars, buildVars, extVars, wpc, handoffVars, k, tags, wlog, valVars, commits, ec2Vars>>

\* RouteEnd as it would be if the changeset were committed whatever it holds
RouteEndAlwaysCommits ==
    /\ todo = {}
    /\ MainStep("route", "log_changeset", <<>>)
    /\ UNCHANGED <<svcVars, buildVars, extVars, wpc, handoffVars, k, tags, wlog, valVars, dnsVars, ec2Vars>>

\* line 432: if changeset.changes
RouteEnd ==
    /\ todo = {}
    /\ MainStep("route", IF changes > 0 THEN "log_changeset" ELSE "tag_done", <<>>)
    /\ UNCHANGED <<svcVars, buildVars, extVars, wpc, handoffVars, k, tags, wlog, valVars, dnsVars, ec2Vars>>

\* line 433: logger.info('Route 53 changeset:\n%s', changeset.to_xml())
LogChangeset == MainCommand("log_changeset", "commit", <<"info", "Route 53 changeset">>)

\* line 434: changeset.commit()
Commit ==
    /\ MainStep("commit", "tag_done", <<"commit">>)
    /\ commits' = commits + 1
    /\ UNCHANGED <<svcVars, buildVars, extVars, wpc, handoffVars, k, tags, wlog, valVars, todo,
                   changes, ec2Vars>>

\* TagDone as it would be if 'done' were not written before the termination
TagDoneForgotten == MainCommand("tag_done", "terminate", <<>>)

\* line 435
TagDone == MainTag("tag_done", "terminate", "done")

\* lines 201-210: terminate_instances() when the other instances carry the
\* tags f; EC2 may answer the lookup or the call with an EC2ResponseError
TerminateWith(f) ==
    \E ec2_error \in BOOLEAN :
        /\ MainStep("terminate", "done",
                    IF ec2_error THEN <<"terminate", "EC2ResponseError">> ELSE <<"terminate">>)
        /\ fleet' = f
        /\ terminated' = terminate_instances(kind, World(f, tags), ec2_error)
        /\ UNCHANGED <<svcVars, buildVars, extVars, wpc, handoffVars, k, tags, wlog, valVars, dnsVars>>

\* line 436: self.terminate_instances(); f is what the other instances of the
\* account are tagged with when EC2 is asked
Terminate == \E f \in BuildFleets : TerminateWith(f)

\* the steps of the main line that call out (EC2, git, the packaging, SSH,
\* SFTP, a service's install, Route 53) and so may raise
MainMayRaise ==
    \/ mpc \in {"tag_started", "fetch_services", "stage", "sftp", "put_config",
                "put_package", "tag_apt_installed", "pip_package", "pip_requirements",
                "tag_installed", "values_init", "refresh", "tag_run", "commit", "tag_done"}
    \/ mpc = "pre_install" /\ k <= Len(Flatten(service_manifests, "pre"))
    \/ mpc = "post_install" /\ k <= Len(Flatten(service_manifests, "post"))
    \/ mpc = "install" /\ k <= Len(service_manifests)
    \/ mpc = "route" /\ todo # {}

\* MainRaises as it would be if install ended with the termination of the
\* replaced instances whatever happened before (a finally clause)
MainRaisesThenTerminates ==
    /\ MainMayRaise
    /\ mpc' = "terminate"
    /\ mlog' = Append(mlog, <<"raised", mpc>>)
    /\ UNCHANGED <<svcVars, buildVars, extVars, wpc, handoffVars, k, tags, wlog, valVars,
                   dnsVars, ec2Vars>>

\* an exception on the main line propagates out of install: nothing catches it
MainRaises ==
    /\ MainMayRaise
    /\ Raise
    /\ UNCHANGED <<svcVars, buildVars, extVars, wpc, handoffVars, k, tags, wlog, valVars,
                   dnsVars, ec2Vars>>

(***************************************************************************)
(* Build.install.setup_instance: the bootstrap worker (lines 282-335)      *)
(***************************************************************************)
WorkerStep(from, to, entry) ==
    /\ wpc = from
    /\ wpc' = to
    /\ wlog' = IF entry = <<>> THEN wlog ELSE Append(wlog, entry)

WorkerCommand(from, to, entry) ==
    /\ WorkerStep(from, to, entry)
    /\ UNCHANGED <<svcVars, buildVars, extVars, mpc, handoffVars, k, tags, mlog, valVars, dnsVars, ec2Vars>>

\* a step of the worker that is a sudo() or an aptitude() call
WorkerSudo(from, to, entry) ==
    \E st \in {0, 1, 127} :
        /\ WorkerStep(from, AfterSudo(st, to), entry)
        /\ nonzero' = Seen(st)
        /\ UNCHANGED <<svcVars, buildVars, sudoRest, mpc, handoffVars, k, tags, mlog, valVars,
                       dnsVars, ec2Vars>>

\* line 284: with self.instance
WEnter == WorkerCommand("enter", "useradd", <<"connect">>)

\* lines 289-290
WUseradd == WorkerSudo("useradd", "sources", <<"useradd">>)

\* lines 292-300: /etc/apt/sources.list rewritten
WSources == WorkerCommand("sources", "lock", <<"sources.list">>)

\* line 306: with service_manifests_available
WLock ==
    /\ holder = "none"
    /\ WorkerStep("lock", "check", <<>>)
    /\ holder' = "worker"
    /\ UNCHANGED <<svcVars, buildVars, extVars, mpc, ready, service_manifests, k, tags, mlog,
                   valVars, dnsVars, ec2Vars>>

\* WCheck as it would be without the while loop of lines 307-308: the worker
\* goes on whatever the flag says
WCheckNoWait ==
    /\ WorkerStep("check", "aggregate", <<>>)
    /\ holder' = "none"
    /\ UNCHANGED <<svcVars, buildVars, extVars, mpc, ready, service_manifests, k, tags, mlog,
                   valVars, dnsVars, ec2Vars>>

\* line 307: while not service_manifests[0], read with the lock held; the
\* end of the with block releases the lock
WCheck ==
    /\ WorkerStep("check", IF ready THEN "aggregate" ELSE "wait", <<>>)
    /\ holder' = IF ready THEN "none" ELSE holder
    /\ UNCHANGED <<svcVars, buildVars, extVars, mpc, ready, service_manifests, k, tags, mlog,
                   valVars, dnsVars, ec2Vars>>

\* line 308: wait() puts the worker among the waiters of the condition and
\* releases the lock, in one step as far as notify() can tell
WWait ==
    /\ WorkerStep("wait", "waiting", <<>>)
    /\ holder' = "none"
    /\ UNCHANGED <<svcVars, buildVars, extVars, mpc, ready, service_manifests, k, tags, mlog,
                   valVars, dnsVars, ec2Vars>>

\* line 308: a notified wait() returns once it has the lock again
WWake ==
    /\ holder = "none"
    /\ WorkerStep("woken", "check", <<>>)
    /\ holder' = "worker"
    /\ UNCHANGED <<svcVars, buildVars, extVars, mpc, ready, service_manifests, k, tags, mlog,
                   valVars, dnsVars, ec2Vars>>

\* lines 309-311: the services' APT repositories and packages
WAggregate ==
    WorkerCommand("aggregate", "repos", <<"aggregate", ServiceNames(service_manifests)>>)

\* lines 312-315: apt-add-repository and aptitude update, if any repository
WRepos ==
    /\ wpc = "repos"
    /\ IF \E i \in 1..Len(service_manifests) : RequiresAptRepository(service_manifests[i])
       THEN \E st \in {0, 1, 127} :
                /\ wpc' = AfterSudo(st, "apt_fast")
                /\ wlog' = wlog \o << <<"apt-add-repository">>, <<"aptitude update">> >>
                /\ nonzero' = Seen(st)
       ELSE /\ wpc' = "apt_fast"
            /\ UNCHANGED <<wlog, nonzero>>
    /\ UNCHANGED <<svcVars, buildVars, sudoRest, mpc, handoffVars, k, tags, mlog, valVars, dnsVars, ec2Vars>>

\* lines 316-331: apt-fast and its configuration written
WAptFast == WorkerCommand("apt_fast", "aria2", <<"write apt-fast">>)

\* lines 332-333: chmod and aptitude install aria2
WAria2 == WorkerSudo("aria2", "apt_install", <<"aptitude install aria2">>)

\* lines 334-335: apt-fast install of the packages
WAptInstall == WorkerSudo("apt_install", "done", <<"apt-fast install">>)

\* an exception in the worker ends the thread; the threading module prints
\* it and nothing hands it to the main line
WorkerRaises ==
    /\ wpc \in {"enter", "useradd", "sources", "repos", "apt_fast", "aria2", "apt_install"}
    /\ wpc' = "failed"
    /\ UNCHANGED <<svcVars, buildVars, extVars, mpc, handoffVars, k, tags, mlog, wlog, valVars,
                   dnsVars, ec2Vars>>

MainNext ==
    \/ StartWorker \/ TagStarted \/ FetchServices \/ SetReady \/ LockCond \/ Notify
    \/ Stage \/ Sftp \/ PutConfig \/ PutPackage \/ Join \/ TagAptInstalled
    \/ PipPackage \/ PipRequirements \/ TagInstalled \/ PreInstall \/ ValuesInit
    \/ Install \/ Refresh \/ PostInstall \/ Route53Check \/ TagRun \/ Route
    \/ RouteEnd \/ LogChangeset \/ Commit \/ TagDone \/ Terminate \/ MainRaises

WorkerNext ==
    \/ WEnter \/ WUseradd \/ WSources \/ WLock \/ WCheck \/ WWait \/ WWake \/ WAggregate
    \/ WRepos \/ WAptFast \/ WAria2 \/ WAptInstall \/ WorkerRaises

Next == MainNext \/ WorkerNext

Spec == InstallInit /\ [][Next]_vars

\* the interpreter gives every thread that can run its turn: the main line
\* and the worker each take a step that stays possible
SpecFair == Spec /\ WF_vars(MainNext) /\ WF_vars(WorkerNext)

\* a build whose commands' exit statuses are observed
StatusInit ==
    /\ manifests = NoTags /\ order = <<>> /\ resolved = NotCalled
    /\ kind \in {"Build", "Promote"}
    /\ zone \in BOOLEAN
    /\ records \in RecordSets
    /\ mpc = "start_worker" /\ wpc = "idle" /\ ready = FALSE /\ service_manifests = <<>>
    /\ holder = "none" /\ k = 1 /\ tags = NoTags /\ mlog = <<>> /\ wlog = <<>>
    /\ service_values = NoTags /\ values_json = {} /\ todo = {}
    /\ changes = 0 /\ commits = 0 /\ fleet = NoTags /\ terminated = {}
    /\ SessIdle /\ R53Idle /\ BranchIdle /\ MetaIdle /\ DoIdle /\ BundleIdle /\ FetchIdle /\ WebIdle
    /\ PairIdle /\ SftpIdle /\ ThreadsIdle /\ ZonesIdle
    /\ nonzero = "no"

SpecStatus == StatusInit /\ [][Next]_vars

(***************************************************************************)
(* terminate_instances on its own: a finished build or promotion and the   *)
(* instances of the account.                                               *)
(***************************************************************************)
TermInit ==
    /\ manifests = NoTags /\ order = <<>> /\ resolved = NotCalled
    /\ kind \in {"Build", "Promote"}
    /\ zone = FALSE /\ records = {}
    /\ mpc = "terminate" /\ wpc = "done" /\ ready = TRUE /\ service_manifests = <<>>
    /\ holder = "none" /\ k = 1
    /\ tags = update_instance_metadata(kind, NoTags, [Status |-> "done"])
    /\ mlog = <<>> /\ wlog = <<>>
    /\ service_values = NoTags /\ values_json = {} /\ todo = {}
    /\ changes = 0 /\ commits = 0
    /\ fleet \in Fleets
    /\ terminated = {}
    /\ SessIdle /\ R53Idle /\ MoreIdle

\* terminate_instances() of the build against the fleet
TerminateFleet == TerminateWith(fleet)

TermNext == TerminateFleet

SpecTerminate == TermInit /\ [][TermNext]_vars

(***************************************************************************)
(* Clean.uninstall (build.py, lines 488-517)                               *)
(***************************************************************************)
CleanInit ==
    /\ manifests = NoTags /\ order = <<>> /\ resolved = NotCalled
    /\ kind = "Clean"
    /\ zone \in BOOLEAN
    /\ records \in RecordSets
    /\ mpc = "clean_terminate" /\ wpc = "idle" /\ ready = FALSE /\ service_manifests = <<>>
    /\ holder = "none" /\ k = 1 /\ tags = NoTags /\ mlog = <<>> /\ wlog = <<>>
    /\ service_values = NoTags /\ values_json = {} /\ todo = {}
    /\ changes = 0 /\ commits = 0 /\ fleet = NoTags /\ terminated = {}
    /\ SessIdle /\ R53Idle /\ MoreIdle

\* CleanTerminate as it would be if Clean used the replaced_instances of
\* Build, which looks at the Commit and the Live tag
CleanTerminateAsBuild ==
    \E f \in BuildFleets, ec2_error \in BOOLEAN :
        /\ MainStep("clean_terminate", "clean_services",
                    IF ec2_error THEN <<"terminate", "EC2ResponseError">> ELSE <<"terminate">>)
        /\ fleet' = f
        /\ terminated' = terminate_instances("Build", f, ec2_error)
        /\ UNCHANGED <<svcVars, buildVars, extVars, wpc, handoffVars, k, tags, wlog, valVars, dnsVars>>

\* line 494: self.terminate_instances(), with the replaced_instances of
\* BaseBuild: every instance of the app and branch
CleanTerminate ==
    \E f \in BuildFleets, ec2_error \in BOOLEAN :
        /\ MainStep("clean_terminate", "clean_services",
                    IF ec2_error THEN <<"terminate", "EC2ResponseError">> ELSE <<"terminate">>)
        /\ fleet' = f
        /\ terminated' = IF ec2_error THEN {} ELSE BaseReplacedInstances(f)
        /\ UNCHANGED <<svcVars, buildVars, extVars, wpc, handoffVars, k, tags, wlog, valVars, dnsVars>>

\* line 495: service_map of self.services
CleanServices ==
    /\ mpc = "clean_services"
    /\ \E m \in InstallManifests :
       \E ord \in Perms(ServiceDicts(m)) :
            resolved' = services(m, ord)
    /\ IF resolved'.raised
       THEN /\ Raise
            /\ UNCHANGED service_manifests
       ELSE /\ mpc' = "clean_check"
            /\ mlog' = mlog
            /\ service_manifests' = resolved'.list
    /\ UNCHANGED <<manifests, order, buildVars, extVars, wpc, ready, holder, k, tags, wlog,
                   valVars, dnsVars, ec2Vars>>

\* lines 496-502: the test of the zone and the records, the new changeset
CleanCheck ==
    /\ MainStep("clean_check",
                IF zone /\ records # {} THEN "clean_remove" ELSE "clean_uninstall", <<>>)
    /\ todo' = IF zone /\ records # {} THEN records ELSE todo
    /\ UNCHANGED <<svcVars, buildVars, extVars, wpc, handoffVars, k, tags, wlog, valVars,
                   changes, commits, ec2Vars>>

\* lines 504-510: one item of route53_records and its remove_domain
CleanRemove ==
    /\ mpc = "clean_remove"
    /\ \E n \in todo :
         LET svcs == {service_manifests[i] : i \in 1..Len(service_manifests)}
             found == {svc \in svcs : svc.name = n}
         IN  IF found = {} \/ \E svc \in found : ~IsDomainService(svc)
             THEN /\ Raise
                  /\ UNCHANGED <<todo, changes>>
             ELSE /\ mpc' = "clean_remove"
                  /\ todo' = todo \ {n}
                  /\ \E c \in RouteChanges : changes' = changes + c
                  /\ mlog' = Append(mlog, <<"remove_domain", n>>)
    /\ UNCHANGED <<svcVars, buildVars, extVars, wpc, handoffVars, k, tags, wlog, valVars,
                   commits, ec2Vars>>

\* line 511: if changeset.changes
CleanRouteEnd ==
    /\ todo = {}
    /\ MainStep("clean_remove", IF changes > 0 THEN "clean_log" ELSE "clean_uninstall", <<>>)
    /\ UNCHANGED <<svcVars, buildVars, extVars, wpc, handoffVars, k, tags, wlog, valVars,
                   dnsVars, ec2Vars>>

\* line 512: logger.info('Route 53 changeset:\n%s', changeset.to_xml())
CleanLog == MainCommand("clean_log", "clean_commit", <<"info", "Route 53 changeset">>)

\* line 513: changeset.commit(), which may raise
CleanCommit ==
    /\ mpc = "clean_commit"
    /\ \/ /\ mpc' = "clean_uninstall"
          /\ mlog' = Append(mlog, <<"commit">>)
          /\ commits' = commits + 1
       \/ /\ Raise
          /\ UNCHANGED commits
    /\ UNCHANGED <<svcVars, buildVars, extVars, wpc, handoffVars, k, tags, wlog, valVars, todo,
                   changes, ec2Vars>>

\* the services not yet uninstalled
NotUninstalled ==
    {service_manifests[i].name : i \in 1..Len(service_manifests)}
    \ {mlog[i][2] : i \in {j \in 1..Len(mlog) : mlog[j][1] = "uninstall"}}

\* lines 514-517: service.uninstall() of every service, in the order of
\* service_map.iteritems(); uninstall may raise
CleanUninstall ==
    /\ mpc = "clean_uninstall"
    /\ IF NotUninstalled = {}
       THEN /\ mpc' = "done"
            /\ mlog' = mlog
       ELSE \/ \E n \in NotUninstalled :
                 /\ mpc' = "clean_uninstall"
                 /\ mlog' = Append(mlog, <<"uninstall", n>>)
            \/ Raise
    /\ UNCHANGED <<svcVars, buildVars, extVars, wpc, handoffVars, k, tags, wlog, valVars,
                   dnsVars, ec2Vars>>

CleanNext ==
    \/ CleanTerminate \/ CleanServices \/ CleanCheck \/ CleanRemove \/ CleanRouteEnd
    \/ CleanLog \/ CleanCommit \/ CleanUninstall

\* the builds, promotions and cleanings of a branch
BuildsInit == InstallInit \/ CleanInit

BuildsNext == Next \/ CleanNext

SpecBuilds == BuildsInit /\ [][BuildsNext]_vars

(***************************************************************************)
(* Instance: the SSH session of one thread (instance.py, lines 128-251)    *)
(***************************************************************************)
\* the deepest nesting of scopes the thread opens
MaxScopes == 2

\* the largest number of calls (with blocks, do(), wait_state()) of the thread
MaxCalls == 3

\* the most seconds one instance.update() takes
MaxLatency == 1

\* line 148: the largest trial that is followed by another one
RetryLimit == 20

\* line 148: the errno values that are retried
ErrnoLow == 60

ErrnoHigh == 61

\* line 149: time.sleep(3)
RetrySleep == 3

\* line 165: the defaults of wait_state
DefaultTimeout == 90

DefaultTick == 5

\* the <<timeout, tick>> of the wait_state calls: the defaults (which
\* __enter__ uses), a timeout the first check already exceeds, a short one
WaitArgs == {<<DefaultTimeout, DefaultTick>>, <<0, DefaultTick>>, <<7, 3>>}

\* what client.connect() may raise: socket errors (errno <<>> stands for an
\* errno of None, as socket.timeout has) and errors of paramiko
SocketErrors == {[type |-> "socket.error", errno |-> e] :
                    e \in {<<>>, <<54>>, <<ErrnoLow>>, <<ErrnoHigh>>, <<111>>}}

ConnectErrors == SocketErrors \cup {[type |-> "SSHException"]}

WaitTimeoutError(number, seconds) ==
    [type |-> "WaitTimeoutError", number |-> number, seconds |-> seconds]

\* Retryable as it would be if every socket error were retried
RetryableAnyErrno(e, t) == t <= RetryLimit

\* line 148: 60 <= e.errno <= 61 and trial <= 20 (None compares below every
\* number)
Retryable(e, t) ==
    /\ e.errno # <<>>
    /\ ErrnoLow <= e.errno[1] /\ e.errno[1] <= ErrnoHigh
    /\ t <= RetryLimit

notSessVars == <<svcVars, buildVars, installVars, r53Vars, moreVars>>

\* the locals of __enter__ and of wait_state
sessLocals == <<trial, attempts, sleeps, wargs, elapsed, wtrial, polls>>

LocalsReset ==
    /\ trial' = 1 /\ attempts' = 0 /\ sleeps' = 0
    /\ wargs' = <<0, 0>> /\ elapsed' = 0 /\ wtrial' = 1 /\ polls' = 0

SessInit ==
    /\ manifests = NoTags /\ order = <<>> /\ resolved = NotCalled
    /\ InstallIdle /\ R53Idle /\ MoreIdle
    /\ sdepth = 0 /\ stack = <<>> /\ spc = "run" /\ entering = "none"
    /\ client = "none" /\ trial = 1 /\ attempts = 0 /\ sleeps = 0 /\ opens = 0
    /\ closes = 0 /\ ncalls = 0 /\ wargs = <<0, 0>>
    /\ elapsed = 0 /\ wtrial = 1 /\ polls = 0 /\ serr = NoError
    /\ istate \in {"pending", "running"}

\* an exception e starts to propagate
SessRaise(e) ==
    /\ spc' = "raising"
    /\ serr' = e

\* lines 129-131: __enter__ counts the depth up and, at depth 1, calls
\* wait_state() with its defaults
Begin(what) ==
    /\ spc = "run"
    /\ ncalls < MaxCalls
    /\ Len(stack) < MaxScopes
    /\ ncalls' = ncalls + 1
    /\ entering' = what
    /\ sdepth' = sdepth + 1
    /\ IF sdepth + 1 < 2
       THEN /\ spc' = "wait_state"
            /\ wargs' = <<DefaultTimeout, DefaultTick>>
       ELSE /\ spc' = "return_client"
            /\ UNCHANGED wargs
    /\ UNCHANGED <<stack, client, trial, attempts, sleeps, opens, closes, istate,
                   elapsed, wtrial, polls, serr, sessRest>>

\* with instance:
BeginWith == Begin("with") /\ UNCHANGED doVars

\* lines 191-228: instance.do(command) up to its `with self as client`
BeginDo == Begin("do") /\ scall' = "do" /\ sstatus' = <<>> /\ sret' = <<>>

\* lines 253-269: instance.sudo(command) puts sudo before the command and
\* returns self.do(command, environ=environ)
BeginSudo == Begin("do") /\ scall' = "sudo" /\ sstatus' = <<>> /\ sret' = <<>>

\* lines 165-179: a call of instance.wait_state(timeout=..., tick=...)
CallWaitState ==
    /\ spc = "run"
    /\ ncalls < MaxCalls
    /\ ncalls' = ncalls + 1
    /\ entering' = "wait_state"
    /\ spc' = "wait_state"
    /\ wargs' \in WaitArgs
    /\ UNCHANGED <<sdepth, stack, client, trial, attempts, sleeps, opens, closes,
                   istate, elapsed, wtrial, polls, serr, notSessVars>>

\* lines 180 and 188-189: the test of the loop and, after the loop, the
\* raise or the return; __enter__ goes on with a new SSHClient (132-135)
WaitCheck ==
    /\ spc = "wait_state"
    /\ IF istate # "running" /\ elapsed < wargs[1]
       THEN /\ spc' = "poll"
            /\ UNCHANGED <<client, sessLocals, entering, serr>>
       ELSE IF istate # "running"
       THEN /\ SessRaise(WaitTimeoutError(wtrial, elapsed))
            /\ UNCHANGED <<client, sessLocals, entering>>
       ELSE IF entering = "wait_state"
       THEN /\ spc' = "run"
            /\ entering' = "none"
            /\ LocalsReset
            /\ UNCHANGED <<client, serr>>
       ELSE /\ spc' = "connect"
            /\ client' = "new"
            /\ LocalsReset
            /\ UNCHANGED <<entering, serr>>
    /\ UNCHANGED <<sdepth, stack, opens, closes, ncalls, istate, notSessVars>>

\* lines 181-187: instance.update(), time.sleep(tick), trial += 1
WaitPoll ==
    /\ spc = "poll"
    /\ spc' = "wait_state"
    /\ istate' \in {"pending", "running"}
    /\ polls' = polls + 1
    /\ \E d \in 0..MaxLatency : elapsed' = elapsed + wargs[2] + d
    /\ wtrial' = wtrial + 1
    /\ UNCHANGED <<sdepth, stack, entering, client, trial, attempts, sleeps, opens,
                   closes, ncalls, wargs, serr, notSessVars>>

\* lines 136-155: one round of the connect loop
Connect ==
    /\ spc = "connect"
    /\ attempts' = attempts + 1
    /\ \/ /\ client' = "connected"
          /\ opens' = opens + 1
          /\ spc' = "return_client"
          /\ UNCHANGED <<trial, sleeps, serr>>
       \/ \E e \in ConnectErrors :
            IF e.type = "socket.error" /\ Retryable(e, trial)
            THEN /\ sleeps' = sleeps + RetrySleep
                 /\ trial' = trial + 1
                 /\ serr' = e
                 /\ UNCHANGED <<spc, client, opens>>
            ELSE /\ SessRaise(e)
                 /\ UNCHANGED <<trial, sleeps, client, opens>>
    /\ UNCHANGED <<sdepth, stack, entering, closes, ncalls, istate, wargs, elapsed,
                   wtrial, polls, notSessVars>>

\* line 156: return self.local.client; the scope is entered
ReturnClient ==
    /\ spc = "return_client"
    /\ IF client = "none"
       THEN /\ SessRaise([type |-> "AttributeError"])
            /\ UNCHANGED <<stack, entering, sessLocals>>
       ELSE /\ stack' = Append(stack, entering)
            /\ spc' = IF entering = "do" THEN "exec" ELSE "run"
            /\ entering' = "none"
            /\ serr' = NoError
            /\ LocalsReset
    /\ UNCHANGED <<sdepth, client, opens, closes, ncalls, istate, notSessVars>>

\* the exit statuses of the remote commands
ExitStatuses == {0, 1, 127}

\* lines 229-251: client.exec_command(command) and the wait for its exit
\* status; a client that is not connected raises, and so may a connected one
Exec ==
    /\ spc = "exec"
    /\ \/ /\ client = "connected"
          /\ spc' = "do_exit"
          /\ \E st \in ExitStatuses : sstatus' = <<st>>
          /\ UNCHANGED <<serr, scall, sret>>
       \/ /\ SessRaise([type |-> "SSHException"])
          /\ UNCHANGED doVars
    /\ UNCHANGED <<sdepth, stack, entering, client, sessLocals, opens, closes, ncalls,
                   istate, sessRest>>

\* lines 158-163: __exit__ of the innermost scope
ExitScope ==
    /\ stack' = SubSeq(stack, 1, Len(stack) - 1)
    /\ sdepth' = sdepth - 1
    /\ IF sdepth - 1 = 0
       THEN /\ closes' = closes + 1
            /\ client' = "none"
       ELSE UNCHANGED <<closes, client>>

\* DoExit as it would be if a non-zero exit status were raised as an error
DoExitChecked ==
    /\ spc = "do_exit"
    /\ IF sstatus = <<0>>
       THEN /\ ExitScope
            /\ spc' = "run"
            /\ sret' = sstatus
            /\ UNCHANGED serr
       ELSE /\ SessRaise([type |-> "CalledProcessError"])
            /\ UNCHANGED <<stack, sdepth, closes, client, sret>>
    /\ UNCHANGED <<entering, sessLocals, opens, ncalls, istate, scall, sstatus, sessRest>>

\* line 251: return channel.recv_exit_status(); the with block of do() ends
DoExit ==
    /\ spc = "do_exit"
    /\ ExitScope
    /\ spc' = "run"
    /\ sret' = sstatus
    /\ UNCHANGED <<entering, sessLocals, opens, ncalls, istate, serr, scall, sstatus, sessRest>>

\* the end of a `with instance` block
EndWith ==
    /\ spc = "run"
    /\ stack # <<>>
    /\ ExitScope
    /\ UNCHANGED <<spc, entering, sessLocals, opens, ncalls, istate, serr, notSessVars>>

\* the exception leaves the innermost scope: its __exit__ runs
Unwind ==
    /\ spc = "raising"
    /\ stack # <<>>
    /\ ExitScope
    /\ UNCHANGED <<spc, entering, sessLocals, opens, ncalls, istate, serr, notSessVars>>

\* the caller's except clause; do() itself has none
Catch ==
    /\ spc = "raising"
    /\ IF stack = <<>> THEN TRUE ELSE stack[Len(stack)] = "with"
    /\ spc' = "run"
    /\ entering' = "none"
    /\ serr' = NoError
    /\ LocalsReset
    /\ UNCHANGED <<sdepth, stack, client, opens, closes, ncalls, istate, notSessVars>>

SessNext ==
    \/ BeginWith \/ BeginDo \/ BeginSudo \/ CallWaitState \/ WaitCheck \/ WaitPoll \/ Connect
    \/ ReturnClient \/ Exec \/ DoExit \/ EndWith \/ Unwind \/ Catch

SpecSession == SessInit /\ [][SessNext]_vars

(***************************************************************************)
(* ELBService.route_domain / remove_domain (elb.py, lines 138-261) against *)
(* the record sets of one hosted zone.                                     *)
(***************************************************************************)
\* Python's None
None == "None"

\* the name of the hosted zone (its apex) and two names below it
TopName == "example.com."

SubName == "www.example.com."

OtherName == "api.example.com."

\* load_balancer.canonical_hosted_zone_name_id and load_balancer.dns_name
HostedZoneId == "Z-ELB"

LoadBalancerDnsName == "new.elb.amazonaws.com"

\* lines 138-144: dns_name, with the dot the load balancer's name lacks
dns_name == LoadBalancerDnsName \o "."

\* lines 146-148
ipv6_dns_name == "ipv6." \o dns_name

\* lines 150-152
dualstack_dns_name == "dualstack." \o dns_name

\* a boto.route53.record.Record
Record(name, type_, ttl, hosted_zone_id, alias_name, values, identifier, weight, region) ==
    [name |-> name, type |-> type_, ttl |-> ttl,
     alias_hosted_zone_id |-> hosted_zone_id,
     alias_dns_name |-> alias_name,
     resource_records |-> values,
     identifier |-> identifier, weight |-> weight, region |-> region]

\* <<identifier, weight, region>> of a simple, a weighted and a latency record
Policies == {<<None, None, None>>, <<"w1", "10", None>>, <<"r1", None, "us-east-1">>}

\* the record sets that may exist at the apex: aliases to this or to another
\* load balancer, and plain address records
ARecords ==
    {Record(TopName, "A", None, HostedZoneId, d, <<>>, p[1], p[2], p[3]) :
        d \in {dns_name, "old.elb.amazonaws.com."}, p \in Policies}
    \cup {Record(TopName, "A", "300", None, None, <<"192.0.2.1">>, p[1], p[2], p[3]) :
            p \in Policies}

AAAARecords ==
    {Record(TopName, "AAAA", None, HostedZoneId, d, <<>>, p[1], p[2], p[3]) :
        d \in {ipv6_dns_name, "ipv6.old.elb.amazonaws.com."}, p \in Policies}

\* the CNAME record sets that may exist at a name below the apex
CnameRecords(name) ==
    {Record(name, "CNAME", "300", None, None, <<v>>, p[1], p[2], p[3]) :
        v \in {dualstack_dns_name, "dualstack.old.elb.amazonaws.com."}, p \in Policies}

\* the position of a name and type in the listing of a zone
Rank(name, type_) ==
    (IF name = TopName THEN 0 ELSE IF name = OtherName THEN 10 ELSE 20)
    + (IF type_ = "A" THEN 1 ELSE IF type_ = "AAAA" THEN 2 ELSE 3)

\* the hosted zones: at most one record set of a name and type, listed by
\* name and type
Zones ==
    {a \o b \o c \o d :
        a \in {<<>>} \cup {<<r>> : r \in ARecords},
        b \in {<<>>} \cup {<<r>> : r \in AAAARecords},
        c \in {<<>>, <<Record(OtherName, "CNAME", "300", None, None,
                              <<dualstack_dns_name>>, None, None, None)>>},
        d \in {<<>>} \cup {<<r>> : r \in CnameRecords(SubName)}}

\* line 158: connection.get_all_rrsets(zone_id, type, name) lists the record
\* sets of the zone from that name and type on
get_all_rrsets(zone_, type_, name) ==
    LET FromThere(r) == Rank(r.name, r.type) >= Rank(name, type_)
    IN  SelectSeq(zone_, FromThere)

\* FirstMatch as it would be if the existing record sets were not inspected
FirstMatchNone(list, type_, name) == 0

\* lines 165-166 and 195-196: the first listed record of the type and name,
\* 0 if there is none
FirstMatch(list, type_, name) ==
    LET S == {i \in 1..Len(list) : list[i].type = type_ /\ list[i].name = name}
    IN  IF S = {} THEN 0 ELSE CHOOSE i \in S : \A j \in S : i <= j

\* records.add_change(action, name, type, ttl=600, ...): the changeset gets
\* a pair of the action and a new record
add_change(changes_, action, name, type_, ttl, zid, alias, values, identifier, weight, region) ==
    Append(changes_, <<action, Record(name, type_, ttl, zid, alias, values,
                                      identifier, weight, region)>>)

\* ApexGoal as it would be if the DELETE were staged without the existing
\* record's identifier, weight and region
ApexGoalDropsPolicy(changes_, zone_, name, type_, goal) ==
    LET list == get_all_rrsets(zone_, type_, name)
        i == FirstMatch(list, type_, name)
        created == add_change(changes_, "CREATE", name, type_, "600", HostedZoneId,
                              goal, <<>>, None, None, None)
    IN  IF i = 0 THEN created
        ELSE IF list[i].alias_hosted_zone_id = HostedZoneId /\ list[i].alias_dns_name = goal
        THEN changes_
        ELSE add_change(add_change(changes_, "DELETE", list[i].name, list[i].type,
                                   list[i].ttl, HostedZoneId, goal,
                                   list[i].resource_records, None, None, None),
                        "CREATE", name, type_, "600", HostedZoneId, goal, <<>>,
                        None, None, None)

\* lines 163-193: one goal (a type and the dns name its alias shall point
\* at) of route_domain at the apex
ApexGoal(changes_, zone_, name, type_, goal) ==
    LET list == get_all_rrsets(zone_, type_, name)
        i == FirstMatch(list, type_, name)
    IN  IF i = 0
        THEN add_change(changes_, "CREATE", name, type_, "600", HostedZoneId, goal,
                        <<>>, None, None, None)
        ELSE IF list[i].alias_hosted_zone_id = HostedZoneId /\ list[i].alias_dns_name = goal
        THEN changes_
        ELSE add_change(add_change(changes_, "DELETE", list[i].name, list[i].type,
                                   list[i].ttl, HostedZoneId, goal,
                                   list[i].resource_records, list[i].identifier,
                                   list[i].weight, list[i].region),
                        "CREATE", name, type_, "600", HostedZoneId, goal, <<>>,
                        None, None, None)

\* CnameGoal as it would be if the new value were added to the existing ones
CnameGoalMerges(changes_, zone_, name) ==
    LET list == get_all_rrsets(zone_, "CNAME", name)
        i == FirstMatch(list, "CNAME", name)
    IN  IF i = 0
        THEN add_change(changes_, "CREATE", name, "CNAME", "600", None, None,
                        <<dualstack_dns_name>>, None, None, None)
        ELSE IF list[i].resource_records = <<dualstack_dns_name>>
        THEN changes_
        ELSE add_change(add_change(changes_, "DELETE", list[i].name, list[i].type,
                                   list[i].ttl, None, None, list[i].resource_records,
                                   list[i].identifier, list[i].weight, list[i].region),
                        "CREATE", name, "CNAME", "600", None, None,
                        Append(list[i].resource_records, dualstack_dns_name),
                        None, None, None)

\* lines 195-213: route_domain below the apex
CnameGoal(changes_, zone_, name) ==
    LET list == get_all_rrsets(zone_, "CNAME", name)
        i == FirstMatch(list, "CNAME", name)
    IN  IF i = 0
        THEN add_change(changes_, "CREATE", name, "CNAME", "600", None, None,
                        <<dualstack_dns_name>>, None, None, None)
        ELSE IF list[i].resource_records = <<dualstack_dns_name>>
        THEN changes_
        ELSE add_change(add_change(changes_, "DELETE", list[i].name, list[i].type,
                                   list[i].ttl, None, None, list[i].resource_records,
                                   list[i].identifier, list[i].weight, list[i].region),
                        "CREATE", name, "CNAME", "600", None, None,
                        <<dualstack_dns_name>>, None, None, None)

\* lines 154-213
route_domain(name, zone_, changes_) ==
    IF TopName = name
    THEN ApexGoal(ApexGoal(changes_, zone_, name, "A", dns_name),
                  zone_, name, "AAAA", ipv6_dns_name)
    ELSE CnameGoal(changes_, zone_, name)

RECURSIVE DeleteAll(_, _, _, _, _, _)
\* lines 235-248 and 250-261: a DELETE for every listed record from the
\* i-th on that is of the type and name
DeleteAll(changes_, list, i, type_, name, alias) ==
    IF i > Len(list) THEN changes_
    ELSE DeleteAll(IF list[i].type = type_ /\ list[i].name = name
                   THEN add_change(changes_, "DELETE", list[i].name, list[i].type,
                                   list[i].ttl, alias[1], alias[2],
                                   list[i].resource_records, list[i].identifier,
                                   list[i].weight, list[i].region)
                   ELSE changes_,
                   list, i + 1, type_, name, alias)

\* lines 226-261: both goals of the apex list and test the type 'A'
remove_domain(name, zone_, changes_) ==
    IF TopName = name
    THEN DeleteAll(DeleteAll(changes_, get_all_rrsets(zone_, "A", name), 1, "A", name,
                             <<HostedZoneId, dns_name>>),
                   get_all_rrsets(zone_, "A", name), 1, "A", name,
                   <<HostedZoneId, ipv6_dns_name>>)
    ELSE DeleteAll(changes_, get_all_rrsets(zone_, "CNAME", name), 1, "CNAME", name,
                   <<None, None>>)

\* Record.to_xml: what a record of a changeset says to Route 53, an alias
\* target or a ttl with values, and the routing policy
to_xml(r) ==
    [name |-> r.name, type |-> r.type,
     body |-> IF r.alias_hosted_zone_id # None /\ r.alias_dns_name # None
              THEN <<"AliasTarget", r.alias_hosted_zone_id, r.alias_dns_name>>
              ELSE <<"ResourceRecords", r.ttl, r.resource_records>>,
     policy |-> IF r.identifier # None /\ r.weight # None
                THEN <<"Weight", r.identifier, r.weight>>
                ELSE IF r.identifier # None /\ r.region # None
                THEN <<"Region", r.identifier, r.region>>
                ELSE <<>>]

\* the record set Route 53 lists for what a CREATE said
from_xml(x) ==
    Record(x.name, x.type,
           IF x.body[1] = "AliasTarget" THEN None ELSE x.body[2],
           IF x.body[1] = "AliasTarget" THEN x.body[2] ELSE None,
           IF x.body[1] = "AliasTarget" THEN x.body[3] ELSE None,
           IF x.body[1] = "AliasTarget" THEN <<>> ELSE x.body[3],
           IF x.policy = <<>> THEN None ELSE x.policy[2],
           IF x.policy # <<>> /\ x.policy[1] = "Weight" THEN x.policy[3] ELSE None,
           IF x.policy # <<>> /\ x.policy[1] = "Region" THEN x.policy[3] ELSE None)

Rejected == [ok |-> FALSE]

RECURSIVE ApplyChanges(_, _)
\* Route 53 applies the changes of a batch in order, all or none: a DELETE
\* must name an existing record set with its current values, a CREATE a
\* name and type that has no record set
ApplyChanges(zone_, changes_) ==
    IF changes_ = <<>> THEN [ok |-> TRUE, zone |-> zone_]
    ELSE LET action == Head(changes_)[1]
             x == to_xml(Head(changes_)[2])
             same == {i \in 1..Len(zone_) : to_xml(zone_[i]) = x}
             Before(r) == Rank(r.name, r.type) <= Rank(x.name, x.type)
             After(r) == ~Before(r)
         IN  IF action = "DELETE"
             THEN IF same = {} THEN Rejected
                  ELSE LET i == CHOOSE j \in same : TRUE
                       IN  ApplyChanges(SubSeq(zone_, 1, i - 1)
                                        \o SubSeq(zone_, i + 1, Len(zone_)),
                                        Tail(changes_))
             ELSE IF \E i \in 1..Len(zone_) :
                        zone_[i].name = x.name /\ zone_[i].type = x.type
                  THEN Rejected
                  ELSE ApplyChanges(SelectSeq(zone_, Before) \o <<from_xml(x)>>
                                    \o SelectSeq(zone_, After),
                                    Tail(changes_))

\* build.py 432-434 and 511-513: changeset.commit(), if it has changes
commit(zone_, changes_) ==
    IF changes_ = <<>> THEN [ok |-> TRUE, zone |-> zone_]
    ELSE ApplyChanges(zone_, changes_)

notR53Vars == <<svcVars, buildVars, installVars, sessVars, moreVars>>

DnsInit ==
    /\ manifests = NoTags /\ order = <<>> /\ resolved = NotCalled
    /\ InstallIdle /\ SessIdle /\ MoreIdle
    /\ dname \in {TopName, SubName}
    /\ dzone \in Zones
    /\ dchanges = <<>>
    /\ dpc = "start"
    /\ dbefore = <<>>

\* service.route_domain(domain, changeset), on a new changeset
RouteDomain ==
    /\ dpc \in {"start", "applied"}
    /\ dchanges' = route_domain(dname, dzone, dchanges)
    /\ dpc' = IF dpc = "start" THEN "routed" ELSE "routed_again"
    /\ UNCHANGED <<dname, dzone, dbefore, notR53Vars>>

\* service.remove_domain(domain, changeset), on a new changeset
RemoveDomain ==
    /\ dpc = "start"
    /\ dchanges' = remove_domain(dname, dzone, dchanges)
    /\ dpc' = "removed"
    /\ UNCHANGED <<dname, dzone, dbefore, notR53Vars>>

\* the changeset is committed; the next call gets a new one
CommitChanges ==
    /\ dpc \in {"routed", "removed"}
    /\ dbefore' = <<dzone, dchanges>>
    /\ LET result == commit(dzone, dchanges)
       IN  IF result.ok
           THEN /\ dzone' = result.zone
                /\ dchanges' = <<>>
                /\ dpc' = IF dpc = "routed" THEN "applied" ELSE "cleaned"
           ELSE /\ dpc' = "rejected"
                /\ UNCHANGED <<dzone, dchanges>>
    /\ UNCHANGED <<dname, notR53Vars>>

DnsNext == RouteDomain \/ RemoveDomain \/ CommitChanges

SpecDns == DnsInit /\ [][DnsNext]_vars

(***************************************************************************)
(* Properties of BaseBuild.services                                        *)
(***************************************************************************)
\* the position of the service called n in a resolved list
IndexOf(list, n) == CHOOSE i \in 1..Len(list) : list[i].name = n

Enabled == ServiceDicts(manifests)

\* every enabled manifest names a usable type and depends on enabled manifests only
WellFormed ==
    \A n \in Enabled : /\ Depends(manifests, n) \subseteq Enabled
                       /\ ~CreateServiceRaises(manifests[n])

\* the depends edges between enabled manifests admit some linear order
Acyclic ==
    \E p \in Perms(Enabled) :
        \A i, j \in 1..Len(p) : p[i] \in Depends(manifests, p[j]) => i < j

\* C1: for enabled manifests whose depends edges are acyclic and name enabled
\* manifests only, services returns each enabled service exactly once, and
\* every service after all the services it depends on, whatever the iteration
\* order of the mapping
C1_TopologicalOrder ==
    (resolved.called /\ WellFormed /\ Acyclic) =>
        /\ ~resolved.raised
        /\ Len(resolved.list) = Cardinality(Enabled)
        /\ {resolved.list[i].name : i \in 1..Len(resolved.list)} = Enabled
        /\ \A b \in Enabled : \A a \in Depends(manifests, b) :
               IndexOf(resolved.list, a) < IndexOf(resolved.list, b)

\* a diamond of four enabled services has been resolved in an order that is
\* not the order of the listing
C1_Witness_Diamond ==
    /\ resolved.called /\ WellFormed /\ Acyclic
    /\ Len(resolved.list) = 4
    /\ \E a, b, c, d \in Enabled :
        /\ Cardinality({a, b, c, d}) = 4
        /\ Depends(manifests, a) = {}
        /\ Depends(manifests, b) = {a}
        /\ Depends(manifests, c) = {a}
        /\ Depends(manifests, d) = {b, c}
        /\ order = <<d, c, b, a>>

\* C2: a disabled manifest never appears in the output of services, and an
\* enabled manifest that names a disabled or absent service in depends makes
\* the resolution fail with an error
C2_MissingDependencyIsError ==
    resolved.called =>
        /\ \A i \in 1..Len(resolved.list) : resolved.list[i].name \in Enabled
        /\ (\E n \in Enabled : ~(Depends(manifests, n) \subseteq Enabled)) => resolved.raised

(***************************************************************************)
(* Properties of Build.install                                             *)
(***************************************************************************)
\* the main line has logged the entry
Logged(entry) == \E i \in 1..Len(mlog) : mlog[i] = entry

\* the main line has logged an entry of the kind (its first element)
LoggedKind(kd) == \E i \in 1..Len(mlog) : mlog[i][1] = kd

PosOf(entry) == CHOOSE i \in 1..Len(mlog) : mlog[i] = entry

Count(kd) == Cardinality({i \in 1..Len(mlog) : mlog[i][1] = kd})

Status == Get(tags, "Status")

IsHook(e, hook) == Len(e) = 3 /\ e[2] = hook

IsInstall(e) == Len(e) = 2 /\ e[1] = "install"

\* the pass an entry of a service belongs to: 1 pre_install, 2 install, 3 post_install
Pass(e) == IF IsHook(e, "pre") THEN 1 ELSE IF IsInstall(e) THEN 2 ELSE 3

\* the service of a hook command or of an install
ServiceOf(e) == IF IsInstall(e) THEN e[2] ELSE e[1]

ServiceEntries == {i \in 1..Len(mlog) : IsHook(mlog[i], "pre") \/ IsInstall(mlog[i])
                                         \/ IsHook(mlog[i], "post")}

\* the hooks and installs are over
HooksDone == mpc \in {"route53_check", "tag_run", "route", "log_changeset", "commit", "tag_done",
                      "terminate", "done"}

\* C3 as claimed: after the join the services are processed one at a time,
\* pre_install, install and post_install of a service before anything of the
\* next service
C3_PerServiceOrder ==
    \A i, j \in ServiceEntries :
        IndexOf(service_manifests, ServiceOf(mlog[i]))
            < IndexOf(service_manifests, ServiceOf(mlog[j])) => i < j

\* C3, amended: after the join install makes three passes over the resolved
\* services: every service's pre_install commands, then every service's
\* install, then every service's post_install commands, each pass in resolved
\* order and a service's commands in their declared order; when the passes
\* are over every command and every install has run exactly once
C3_ThreePasses ==
    /\ \A i \in ServiceEntries : Logged(<<"join">>) /\ PosOf(<<"join">>) < i
    /\ \A i, j \in ServiceEntries :
          i < j =>
            \/ Pass(mlog[i]) < Pass(mlog[j])
            \/ /\ Pass(mlog[i]) = Pass(mlog[j])
               /\ IndexOf(service_manifests, ServiceOf(mlog[i]))
                      < IndexOf(service_manifests, ServiceOf(mlog[j]))
            \/ /\ Pass(mlog[i]) = Pass(mlog[j])
               /\ ServiceOf(mlog[i]) = ServiceOf(mlog[j])
               /\ ~IsInstall(mlog[i])
               /\ mlog[i][3] < mlog[j][3]
    /\ HooksDone =>
          \A n \in 1..Len(service_manifests) :
              LET svc == service_manifests[n]
              IN  /\ Logged(<<"install", svc.name>>)
                  /\ \A c \in 1..Len(svc.pre_install) : Logged(svc.pre_install[c])
                  /\ \A c \in 1..Len(svc.post_install) : Logged(svc.post_install[c])

\* two services with a pre_install and a post_install command each have been
\* installed
C3_Witness_TwoServicesWithHooks ==
    /\ HooksDone
    /\ Len(service_manifests) >= 2
    /\ \A n \in 1..Len(service_manifests) :
          /\ Len(service_manifests[n].pre_install) >= 1
          /\ Len(service_manifests[n].post_install) >= 1

WorkerEnded == wpc \in {"done", "failed"}

\* C4: the 'apt-installed' status and the pip installation never start before
\* the bootstrap worker thread has ended, and the uploads of the config
\* directory and of the package are issued before the join
C4_JoinBeforePip ==
    /\ (Logged(<<"tag", "apt-installed">>) \/ LoggedKind("pip")
            \/ mpc \in {"tag_apt_installed", "pip_package", "pip_requirements"})
          => WorkerEnded
    /\ (Logged(<<"tag", "apt-installed">>) \/ LoggedKind("pip")) =>
          /\ Logged(<<"put_directory">>) /\ Logged(<<"put_file">>) /\ Logged(<<"join">>)
          /\ PosOf(<<"put_directory">>) < PosOf(<<"put_file">>)
          /\ PosOf(<<"put_file">>) < PosOf(<<"join">>)
          /\ \A i \in 1..Len(mlog) :
                (mlog[i] = <<"tag", "apt-installed">> \/ mlog[i][1] = "pip")
                    => PosOf(<<"join">>) < i

\* pip has installed the package after a bootstrap that ran to its end
C4_Witness_PipAfterBootstrap ==
    /\ Logged(<<"pip", "package">>)
    /\ wpc = "done"
    /\ wlog[Len(wlog)] = <<"apt-fast install">>

\* the package is uploaded while the bootstrap worker still waits for the
\* service list or installs packages
C4_UploadOverlapsBootstrap ==
    /\ mpc = "join"
    /\ Logged(<<"put_file">>)
    /\ wpc \in {"useradd", "sources", "aggregate", "apt_install"}

\* the main line has raised
Raised == LoggedKind("raised")

\* C5: once a step of the main line has raised, the main line does nothing
\* more: the Status tag, values.json and the changeset stay as they are,
\* no changeset is committed and terminate_instances is not called
C5_FailureStopsMainLine ==
    /\ [](Raised => /\ mpc = "failed"
                    /\ terminated = {}
                    /\ ~LoggedKind("terminate")
                    /\ mlog[Len(mlog)][1] = "raised")
    /\ [][Raised => /\ mpc' = "failed" /\ mlog' = mlog /\ tags' = tags
                    /\ values_json' = values_json /\ changes' = changes
                    /\ commits' = commits /\ terminated' = terminated]_vars

\* the install of the second service has raised after the first was installed
C5_Witness_InstallRaises ==
    /\ Raised
    /\ mlog[Len(mlog)] = <<"raised", "install">>
    /\ LoggedKind("install")
    /\ Status = "installed"
    /\ JsonKeys(values_json) = {".build", service_manifests[1].name}

\* C6: if the bootstrap worker fails, the build is aborted: the main line does
\* not go on to the pip installation and the Status tag never becomes
\* 'apt-installed', 'installed' or 'done'
C6_BootstrapFailureAbortsBuild ==
    wpc = "failed" =>
        /\ Status \notin {"apt-installed", "installed", "done"}
        /\ ~LoggedKind("pip")

\* C8: the replaced instances are terminated only when the Status tag is
\* 'done' and after the changeset, if it has changes, has been committed
C8_TerminateAfterDone ==
    (LoggedKind("terminate") \/ terminated # {}) =>
        /\ Status = "done"
        /\ Logged(<<"tag", "done">>)
        /\ \A i \in 1..Len(mlog) : mlog[i][1] = "terminate" => PosOf(<<"tag", "done">>) < i
        /\ changes > 0 => /\ commits = 1
                          /\ Logged(<<"commit">>)
                          /\ PosOf(<<"commit">>) < PosOf(<<"tag", "done">>)
        /\ changes = 0 => commits = 0

\* an instance has been terminated after a changeset was committed
C8_Witness_TerminatedAfterCommit ==
    /\ terminated # {}
    /\ commits = 1
    /\ mpc = "done"

StatusRank(st) ==
    CASE st = "" -> 0 [] st = "started" -> 1 [] st = "apt-installed" -> 2
      [] st = "installed" -> 3 [] st = "run" -> 4 [] st = "done" -> 5 [] OTHER -> 6

\* C9: the Status tag takes the values 'started', 'apt-installed', 'installed',
\* 'run', 'done' in that order ('run' may be skipped) and never moves back;
\* 'run' is written only with a zone and a record mapping configured, 'done'
\* only after every service's install and post_install commands have run
C9_StatusMilestones ==
    /\ [](/\ StatusRank(Status) <= 5
          /\ (Status = "run" \/ Logged(<<"tag", "run">>)) => (zone /\ records # {})
          /\ Status = "done" =>
                \A n \in 1..Len(service_manifests) :
                    LET svc == service_manifests[n]
                    IN  /\ Logged(<<"install", svc.name>>)
                        /\ \A c \in 1..Len(svc.post_install) : Logged(svc.post_install[c]))
    /\ [][Status' # Status =>
            \/ StatusRank(Status') = StatusRank(Status) + 1
            \/ Status = "installed" /\ Status' = "done"]_vars

\* a build with a zone and records has reached 'done' through 'run'
C9_Witness_DoneThroughRun ==
    /\ Status = "done"
    /\ Logged(<<"tag", "run">>)
    /\ Len(service_manifests) = 3

\* the names of the first n resolved services
FirstNames(n) == {service_manifests[i].name : i \in 1..n}

BuildEntry == <<".build", [commit |-> CommitRef, branch |-> BranchLabel]>>

\* C10: values.json is rewritten after every install, after the n-th install
\* its keys are '.build' and the names of the first n resolved services, its
\* entries only accumulate and '.build' records the commit ref and the
\* branch label
C10_ValuesAccumulate ==
    /\ [](/\ values_json # {} => BuildEntry \in values_json
          /\ Count("refresh_values") >= 1 =>
                JsonKeys(values_json) = {".build"} \cup FirstNames(Count("refresh_values") - 1)
          /\ \A i \in 1..Len(mlog) :
                (IsInstall(mlog[i]) /\ i < Len(mlog)) =>
                    \/ mlog[i + 1] = <<"refresh_values",
                            {".build"} \cup FirstNames(IndexOf(service_manifests, mlog[i][2]))>>
                    \/ mlog[i + 1][1] = "raised"
          /\ (mpc \notin {"refresh", "failed"} /\ Count("refresh_values") >= 1) =>
                Count("refresh_values") = Count("install") + 1)
    /\ [][values_json \subseteq values_json']_vars

\* values.json holds the build entry and the entries of three services
C10_Witness_ThreeServices ==
    /\ Count("install") = 3
    /\ Count("refresh_values") = 4
    /\ JsonKeys(values_json) = {".build", "web", "worker", "elb"}

(***************************************************************************)
(* Properties of terminate_instances                                       *)
(***************************************************************************)
\* the instances tagged with this app and this branch label whose Commit tag
\* differs from the commit ref and whose Live tag is the build's live-ness
ToReplace(world) ==
    {i \in DOMAIN world :
        /\ DOMAIN world[i] # {}
        /\ world[i].App = AppName
        /\ world[i].Branch = BranchLabel
        /\ world[i].Commit # CommitRef
        /\ world[i].Live = (IF kind = "Promote" THEN "live" ELSE "")}

InScopes == spc \in {"run", "exec", "do_exit"}

\* C11: on one thread a connection is opened and authenticated exactly when
\* the depth goes from 0 to 1 and closed exactly when it returns to 0:
\* whenever the thread is inside a `with instance` scope or a do() call the
\* client is connected and exactly one connection is open, and outside of
\* every scope no client is left and every opened connection was closed
C11_OneConnectionPerOutermostScope ==
    InScopes =>
        /\ stack # <<>> => client = "connected" /\ opens = closes + 1
        /\ stack = <<>> => client = "none" /\ opens = closes

\* C12: in the connect loop a failed attempt is followed by another one only
\* if it raised a socket error of errno 60 or 61, and then after a sleep of
\* 3 seconds; every other error propagates at the attempt it occurs in,
\* without a sleep; a successful connect ends the loop; no connect() is
\* called outside of the loop
C12_RetryOnlyOnRefused ==
    [][/\ spc = "connect" =>
            /\ spc' = "connect" =>
                  /\ serr'.type = "socket.error"
                  /\ serr'.errno \in {<<60>>, <<61>>}
                  /\ sleeps' = sleeps + 3
                  /\ attempts' = attempts + 1
            /\ client' = "connected" =>
                  spc' = "return_client" /\ sleeps' = sleeps /\ opens' = opens + 1
            /\ (/\ client' # "connected"
                /\ ~(serr'.type = "socket.error" /\ serr'.errno \in {<<60>>, <<61>>})) =>
                  spc' = "raising" /\ sleeps' = sleeps /\ opens' = opens
       /\ attempts' > attempts => spc = "connect"
       /\ opens' # opens => spc = "connect" /\ client' = "connected"]_vars

\* a connect that succeeded at its third attempt, after two refusals and
\* six seconds of sleep
C12_Witness_ConnectedAfterRetries ==
    /\ spc = "return_client" /\ client = "connected"
    /\ attempts = 3 /\ sleeps = 6 /\ trial = 3
    /\ serr.type = "socket.error" /\ serr.errno = <<61>>

\* C13: under persistently refused connections __enter__ makes at most 20
\* connection attempts before it propagates the socket error
C13_AtMostTwentyAttempts == attempts <= 20

\* C14: the number of a WaitTimeoutError is the number of instance.update()
\* calls the wait_state call that raised it has made
C14_NumberIsPolls ==
    serr.type = "WaitTimeoutError" => serr.number = polls

(***************************************************************************)
(* Properties of ELBService.route_domain / remove_domain                   *)
(***************************************************************************)
\* the record sets of the zone of one of the types at the name
Existing(zone_, types, name) ==
    {zone_[i] : i \in {j \in 1..Len(zone_) : zone_[j].type \in types /\ zone_[j].name = name}}

\* the changes of a changeset that are about records of the type
OfType(changes_, type_) ==
    LET IsOfType(c) == c[2].type = type_
    IN  SelectSeq(changes_, IsOfType)

\* the dns name the alias of the type shall point at
GoalOf(type_) == IF type_ = "A" THEN dns_name ELSE ipv6_dns_name

\* the record is an alias to the load balancer of the service
PointsAtService(r) ==
    /\ r.alias_hosted_zone_id = HostedZoneId
    /\ r.alias_dns_name = GoalOf(r.type)

\* the change is the CREATE of an alias of the type to the load balancer
CreatesAlias(c, type_) ==
    /\ c[1] = "CREATE" /\ c[2].name = TopName /\ c[2].type = type_
    /\ c[2].alias_hosted_zone_id = HostedZoneId /\ c[2].alias_dns_name = GoalOf(type_)

\* the change is a DELETE that names the record and its routing policy
DeletesRecord(c, r) ==
    /\ c[1] = "DELETE" /\ c[2].name = r.name /\ c[2].type = r.type
    /\ c[2].identifier = r.identifier /\ c[2].weight = r.weight /\ c[2].region = r.region

\* C15: route_domain, the commit of its changeset and a second route_domain
\* for the same name and load balancer: the second call stages no change
C15_SecondRouteIsEmpty ==
    dpc = "routed_again" => dchanges = <<>>

\* a stale CNAME was replaced by the first call (a DELETE and a CREATE that
\* Route 53 applied) and the second call found nothing to do
C15_Witness_ReplacedThenNothing ==
    /\ dpc = "routed_again" /\ dname = SubName
    /\ Len(dbefore[2]) = 2
    /\ \E r \in Existing(dzone, {"CNAME"}, SubName) :
          r.resource_records = <<dualstack_dns_name>>
    /\ dchanges = <<>>

\* C16 as stated: at the apex the changeset is empty when the existing
\* aliases point at the service, and when an existing alias is stale it is
\* exactly one DELETE followed by one CREATE
C16_ApexWholeChangeset ==
    dpc = "routed" /\ dname = TopName =>
        LET ex == Existing(dzone, {"A", "AAAA"}, TopName)
        IN  /\ (ex # {} /\ \A r \in ex : PointsAtService(r)) => dchanges = <<>>
            /\ (\E r \in ex : ~PointsAtService(r)) =>
                  /\ Len(dchanges) = 2
                  /\ dchanges[1][1] = "DELETE" /\ dchanges[2][1] = "CREATE"

\* C16, amended: at the apex route_domain treats the types A and AAAA one
\* after the other; for each type no change is staged when the existing
\* record of the type is an alias to the service's hosted zone id and dns
\* name (the 'ipv6.' name for AAAA), one CREATE when no record exists, and
\* for a stale record exactly one DELETE, with the record's identifier,
\* weight and region, followed by one CREATE
C16_ApexPerType ==
    dpc = "routed" /\ dname = TopName =>
        /\ dchanges = OfType(dchanges, "A") \o OfType(dchanges, "AAAA")
        /\ \A t \in {"A", "AAAA"} :
              LET ex == Existing(dzone, {t}, TopName)
                  cs == OfType(dchanges, t)
              IN  /\ ex = {} => Len(cs) = 1 /\ CreatesAlias(cs[1], t)
                  /\ \A r \in ex :
                        IF PointsAtService(r) THEN cs = <<>>
                        ELSE /\ Len(cs) = 2
                             /\ DeletesRecord(cs[1], r)
                             /\ CreatesAlias(cs[2], t)

\* a stale weighted A record beside a correct AAAA record: one DELETE with
\* the identifier and weight of the A record, then one CREATE
C16_Witness_StaleWeightedA ==
    /\ dpc = "routed" /\ dname = TopName
    /\ \E r \in Existing(dzone, {"A"}, TopName) :
          ~PointsAtService(r) /\ r.identifier = "w1" /\ r.weight = "10"
    /\ \E r \in Existing(dzone, {"AAAA"}, TopName) : PointsAtService(r)
    /\ Len(dchanges) = 2
    /\ dchanges[1][1] = "DELETE" /\ dchanges[1][2].identifier = "w1"
    /\ dchanges[2][1] = "CREATE"

\* C17: every DELETE route_domain stages carries the current values of the
\* record it removes (its alias target, its resource records) and comes
\* before the CREATE of the same name and type
C17_DeleteCarriesOldValues ==
    dpc = "routed" =>
        \A i \in 1..Len(dchanges) :
            dchanges[i][1] = "DELETE" =>
                /\ \E r \in Existing(dzone, {dchanges[i][2].type}, dname) :
                      /\ DeletesRecord(dchanges[i], r)
                      /\ dchanges[i][2].alias_hosted_zone_id = r.alias_hosted_zone_id
                      /\ dchanges[i][2].alias_dns_name = r.alias_dns_name
                      /\ dchanges[i][2].resource_records = r.resource_records
                /\ \E j \in (i + 1)..Len(dchanges) :
                      /\ dchanges[j][1] = "CREATE"
                      /\ dchanges[j][2].type = dchanges[i][2].type
                      /\ dchanges[j][2].name = dname

C19_RemoveDeletesEachOnce ==
    dpc = "removed" =>
        LET ex == Existing(dzone, IF dname = TopName THEN {"A", "AAAA"} ELSE {"CNAME"},
                           dname)
        IN  /\ \A i \in 1..Len(dchanges) : dchanges[i][1] = "DELETE"
            /\ \A r \in ex :
                  Cardinality({i \in 1..Len(dchanges) : DeletesRecord(dchanges[i], r)}) = 1
            /\ Len(dchanges) = Cardinality(ex)

(***************************************************************************)
(* Properties of the commit of the Route 53 changeset                      *)
(***************************************************************************)
\* C20: Build.install and Clean.uninstall call changeset.commit() at most
\* once, and only for a changeset that has at least one change; the
\* rendered changeset is logged at info level right before the commit
C20_CommitOnceIfChanged ==
    /\ commits <= 1
    /\ commits = 1 => changes >= 1
    /\ Count("commit") = commits
    /\ \A i \in 1..Len(mlog) :
          mlog[i] = <<"commit">> =>
              i > 1 /\ mlog[i - 1] = <<"info", "Route 53 changeset">>

\* a cleaning that removed the domains of the branch, logged and committed
\* the changeset and uninstalled its services
C20_Witness_CleanCommitted ==
    /\ kind = "Clean" /\ mpc = "done"
    /\ commits = 1 /\ changes >= 1
    /\ Logged(<<"remove_domain", "elb">>)
    /\ Logged(<<"uninstall", "elb">>)

\* a build whose route_domain calls staged no change went on to 'done'
\* without a commit
C20_BuildWithoutChanges ==
    /\ kind = "Build" /\ mpc = "done" /\ Logged(<<"route_domain", "elb">>)
    /\ changes = 0 /\ commits = 0

(***************************************************************************)
(* Properties of the DomainService test of the route loop                  *)
(***************************************************************************)
\* the names of route53_records whose resolved service is no DomainService
NotRoutable ==
    {n \in records : \E i \in 1..Len(service_manifests) :
                        /\ service_manifests[i].name = n
                        /\ ~IsDomainService(service_manifests[i])}

\* C21 as claimed: with a hosted zone and a service in route53_records that
\* is no DomainService, the TypeError comes before any change is added to the
\* changeset: route_domain has run for no configured service, and nothing
\* is committed
C21_NoMutationBeforeTypeError ==
    zone /\ NotRoutable # {} =>
        /\ changes = 0
        /\ ~LoggedKind("route_domain")
        /\ commits = 0

\* C21: with a hosted zone and a service in route53_records that is no
\* DomainService,
\* route_domain is never called for that service, the changeset is never
\* logged or committed, and install does not get to 'done'; the services
\* that the loop met before it may have added their changes to the
\* changeset, which is dropped unsent
C21_TypeErrorBeforeCommit ==
    zone /\ NotRoutable # {} =>
        /\ \A n \in NotRoutable : ~Logged(<<"route_domain", n>>)
        /\ commits = 0 /\ ~Logged(<<"commit">>)
        /\ mpc \notin {"log_changeset", "commit", "tag_done", "terminate", "done"}

\* the loop routed the load balancer, which staged changes, and then met
\* the web service and raised
C21_Witness_RoutedThenTypeError ==
    /\ zone /\ NotRoutable = {"web"} /\ todo = {"web"}
    /\ Logged(<<"route_domain", "elb">>) /\ changes > 0
    /\ mpc = "failed" /\ Logged(<<"raised", "route">>)
    /\ commits = 0

(***************************************************************************)
(* Properties of the handoff of the service list to the bootstrap worker   *)
(***************************************************************************)
\* the names of the services the main line has installed so far, in order
InstalledNames ==
    LET sel == SelectSeq(mlog, IsInstall)
    IN  [i \in 1..Len(sel) |-> sel[i][2]]

\* the entries of the worker's log that record the aggregation of lines 309-311
Aggregations == {i \in 1..Len(wlog) : wlog[i][1] = "aggregate"}

\* C29: the bootstrap worker leaves its wait loop and aggregates the
\* services' repositories and packages only when the main line has set the
\* ready flag, and the list it reads is the whole resolved service list,
\* element for element the list whose services the main line installs
C29_AggregateAfterReady ==
    /\ wpc = "aggregate" => ready
    /\ \A i \in Aggregations :
          /\ ready
          /\ resolved.called /\ ~resolved.raised
          /\ wlog[i][2] = ServiceNames(resolved.list)
          /\ wlog[i][2] = ServiceNames(service_manifests)
          /\ Len(InstalledNames) <= Len(wlog[i][2])
          /\ \A n \in 1..Len(InstalledNames) : InstalledNames[n] = wlog[i][2][n]
          /\ HooksDone => InstalledNames = wlog[i][2]

\* the worker has aggregated two services and the main line has installed
\* both of them
C29_Witness_AggregatedTwo ==
    /\ Aggregations # {}
    /\ Len(service_manifests) >= 2
    /\ HooksDone
    /\ InstalledNames = ServiceNames(service_manifests)

\* the worker waits on the condition while the main line still fetches
C29_WorkerWaits ==
    /\ wpc = "waiting" /\ ~ready /\ mpc = "fetch_services"

\* the main line has set the ready flag and called notify()
Notified == ready /\ mpc \notin {"lock_cond", "notify"}

\* the worker has left the wait loop of lines 307-308
PastWaitLoop == wpc = "aggregate" \/ Aggregations # {}

\* C30: no wakeup is lost: after the main line has set the ready flag and
\* notified, the worker is never left waiting on the condition, and it
\* gets past its wait loop (unless the bootstrap failed before the loop),
\* whether the flag was set before the worker took the lock, between its
\* test of the flag and its wait, or while it waited
C30_NoLostWakeup ==
    /\ [](Notified => wpc \notin {"wait", "waiting"})
    /\ (Notified ~> (PastWaitLoop \/ wpc = "failed"))

\* the worker waited on the condition when the main line notified it
C30_Witness_WokenByNotify ==
    /\ Notified /\ wpc = "woken" /\ mpc = "stage"

\* the flag is set between the worker's test and its wait, and the main
\* line has to wait for the lock before it can notify
C30_FlagSetBeforeWait ==
    /\ wpc = "wait" /\ holder = "worker" /\ ready /\ mpc = "lock_cond"

\* the flag is set and notified before the worker has taken the lock
C30_NotifiedBeforeLock ==
    /\ Notified /\ wpc \in {"enter", "useradd", "sources", "lock"}

(***************************************************************************)
(* Branch, PullRequest and find_by_label (branch.py).  A string is the     *)
(* sequence of its characters.                                             *)
(***************************************************************************)
MaxNameLen == 3

MaxPull == 12

\* the characters of branch names: a letter, the underscore and the hyphen
NameChars == {"a", "_", "-"}

RECURSIVE Strings(_, _)
\* the strings of at most n characters of the alphabet
Strings(alphabet, n) ==
    IF n = 0 THEN {<<>>}
    ELSE LET shorter == Strings(alphabet, n - 1)
         IN  shorter \cup {Append(s, c) : s \in shorter, c \in alphabet}

\* the names of the branches of the repository: they start with a letter
BranchNames == {<<"a">> \o s : s \in Strings(NameChars, MaxNameLen - 1)}

\* the numbers of the pull requests of the repository
PullNumbers == 1..MaxPull

\* pr.base.ref of the pull requests
MasterName == <<"a">>

BranchPrefix == <<"b", "r", "a", "n", "c", "h", "-">>

PullPrefix == <<"p", "u", "l", "l", "-">>

DigitChars == <<"0", "1", "2", "3", "4", "5", "6", "7", "8", "9">>

DigitVal(c) == (CHOOSE d \in 1..10 : DigitChars[d] = c) - 1

IsDigit(c) == \E d \in 1..10 : DigitChars[d] = c

RECURSIVE format(_)
\* '{0}'.format(n) of a non-negative integer
format(n) ==
    IF n < 10 THEN <<DigitChars[n + 1]>>
    ELSE format(n \div 10) \o <<DigitChars[(n % 10) + 1]>>

RECURSIVE int(_)
\* int(s) of a string of digits
int(s) ==
    IF s = <<>> THEN 0
    ELSE 10 * int(SubSeq(s, 1, Len(s) - 1)) + DigitVal(s[Len(s)])

\* str.replace(old, new) for single characters
replace(s, old, new) == [i \in 1..Len(s) |-> IF s[i] = old THEN new ELSE s[i]]

HasPrefix(s, p) == Len(s) >= Len(p) /\ SubSeq(s, 1, Len(p)) = p

After(s, p) == SubSeq(s, Len(p) + 1, Len(s))

\* lines 55-63
Branch(name) == [cls |-> "Branch", name |-> name]

\* lines 205-223, for a pull request that the repository has
PullRequest(number) == [cls |-> "PullRequest", name |-> MasterName, number |-> number]

Branches == {Branch(n) : n \in BranchNames} \cup {PullRequest(n) : n \in PullNumbers}

\* lines 65-75 and 225-227
label(b) ==
    IF b.cls = "PullRequest" THEN PullPrefix \o format(b.number)
    ELSE BranchPrefix \o replace(b.name, "_", "-")

Returned(value) == [called |-> TRUE, raised |-> FALSE, value |-> value]

Raises(error) == [called |-> TRUE, raised |-> TRUE, error |-> error]

\* the pattern [1-9]\d* on the whole string
IsPositiveDecimal(s) ==
    /\ s # <<>> /\ s[1] # "0"
    /\ \A i \in 1..Len(s) : IsDigit(s[i])

\* lines 21-36; PullRequest() raises ValueError too when the repository has
\* no pull request of the number (lines 208-210)
find_by_label(lbl) ==
    IF HasPrefix(lbl, BranchPrefix) THEN Returned(Branch(After(lbl, BranchPrefix)))
    ELSE IF HasPrefix(lbl, PullPrefix) /\ IsPositiveDecimal(After(lbl, PullPrefix))
    THEN IF int(After(lbl, PullPrefix)) \in PullNumbers
         THEN Returned(PullRequest(int(After(lbl, PullPrefix))))
         ELSE Raises("ValueError")
    ELSE Raises("ValueError")

\* lines 149-152: isinstance(operand, type(self)), then the labels
eq(self, operand) ==
    IF self.cls = "PullRequest" /\ operand.cls # "PullRequest" THEN FALSE
    ELSE label(self) = label(operand)

RECURSIVE StrHash(_)
\* hash() of a string: a number computed from all its characters in order;
\* a polynomial in 16 bits stands for the interpreter's function
StrHash(s) ==
    IF s = <<>> THEN 0
    ELSE LET c == s[Len(s)]
             code == CASE c = "a" -> 97 [] c = "_" -> 95 [] c = "-" -> 45
                       [] OTHER -> 48
         IN  (31 * StrHash(SubSeq(s, 1, Len(s) - 1)) + code) % 65536

\* lines 157-158 and 271-272
hash(b) == IF b.cls = "PullRequest" THEN b.number ELSE StrHash(b.name)

\* the strings a request may carry as a label
LabelInputs ==
    {p \o s : p \in {BranchPrefix, PullPrefix, <<"b", "r", "a", "n", "c", "h">>,
                     <<"p", "u", "l", "l">>, <<"t", "a", "g", "-">>},
              s \in Strings({"a", "-", "_", "0", "1", "2"}, 2)}

BranchInit ==
    /\ manifests = NoTags /\ order = <<>> /\ resolved = NotCalled
    /\ kind = "Build" /\ zone = FALSE /\ records = {}
    /\ InstallIdle /\ SessIdle /\ R53Idle /\ MetaIdle /\ DoIdle /\ BundleIdle /\ FetchIdle /\ WebIdle /\ PairIdle /\ SftpIdle /\ ThreadsIdle /\ ZonesIdle /\ ExitIdle
    /\ ba \in Branches /\ bb = NotCalled /\ blabel = <<>> /\ bfound = NotCalled
    /\ bcmp = NotCalled /\ bpc = "new"

\* lines 65-75: the label of the branch is taken
LabelOf ==
    /\ bpc = "new"
    /\ blabel' = label(ba)
    /\ bpc' = "labelled"
    /\ UNCHANGED <<brRest, ba, bb, bfound, bcmp>>

\* a label string comes with a request instead (web.py 190-223)
LabelFromRequest ==
    /\ bpc = "new"
    /\ blabel' \in LabelInputs
    /\ bpc' = "requested"
    /\ UNCHANGED <<brRest, ba, bb, bfound, bcmp>>

\* lines 21-36
FindByLabel ==
    /\ bpc \in {"labelled", "requested"}
    /\ bfound' = find_by_label(blabel)
    /\ bpc' = IF bpc = "labelled" THEN "found" ELSE "looked_up"
    /\ UNCHANGED <<brRest, ba, bb, blabel, bcmp>>

\* lines 149-158, 271-272: the branch is compared with another and both are
\* hashed, as a dict or a set does
Compare ==
    /\ bpc = "new"
    /\ bb' \in Branches
    /\ bcmp' = [called |-> TRUE, eq |-> eq(ba, bb'), ha |-> hash(ba), hb |-> hash(bb')]
    /\ bpc' = "compared"
    /\ UNCHANGED <<brRest, ba, blabel, bfound>>

BranchNext == LabelOf \/ LabelFromRequest \/ FindByLabel \/ Compare

SpecBranch == BranchInit /\ [][BranchNext]_vars

(***************************************************************************)
(* Properties of the labels                                                *)
(***************************************************************************)
\* C22 as claimed: find_by_label inverts label: for a plain branch b,
\* find_by_label(b.label) is a plain branch equal to b with b's label and
\* with the name that is the label's suffix with its hyphens turned back
\* into underscores; 'pull-N' with a positive N gives pull request N; any
\* other string raises ValueError
C22_FindInvertsLabel ==
    /\ (bpc = "found" /\ ba.cls = "Branch") =>
          /\ ~bfound.raised
          /\ bfound.value.cls = "Branch"
          /\ eq(bfound.value, ba) /\ eq(ba, bfound.value)
          /\ label(bfound.value) = label(ba)
          /\ bfound.value.name = replace(After(blabel, BranchPrefix), "-", "_")
    /\ (bpc = "found" /\ ba.cls = "PullRequest") =>
          /\ ~bfound.raised
          /\ bfound.value = ba
    /\ bpc = "looked_up" =>
          IF HasPrefix(blabel, BranchPrefix)
          THEN /\ ~bfound.raised /\ bfound.value.cls = "Branch"
               /\ bfound.value.name = replace(After(blabel, BranchPrefix), "-", "_")
          ELSE IF HasPrefix(blabel, PullPrefix) /\ IsPositiveDecimal(After(blabel, PullPrefix))
          THEN /\ ~bfound.raised /\ bfound.value.cls = "PullRequest"
               /\ bfound.value.number = int(After(blabel, PullPrefix))
          ELSE bfound.raised /\ bfound.error = "ValueError"

\* C23 as claimed: two branches that compare equal have equal hashes
C23_EqualImpliesEqualHash ==
    (bpc = "compared" /\ bcmp.eq) => bcmp.ha = bcmp.hb

(***************************************************************************)
(* Metadata: the tags of an instance (instance.py 462-509).  A tag name    *)
(* is a value with its type, so that a name that is no string can be       *)
(* passed.                                                                 *)
(***************************************************************************)
MaxOps == 2

StrKey(s) == [type |-> "str", v |-> s]

\* the tag names a caller passes: two strings and the integer 7
MetaKeys == {StrKey("Status"), StrKey("Live"), [type |-> "int", v |-> "7"]}

MetaValues == {"run", "done"}

\* the mappings a caller passes to update()
MetaMappings == UNION {[ks -> MetaValues] : ks \in SUBSET MetaKeys}

\* the calls: tags[tag] = value, del tags[tag], tags.update(mapping)
MetaCalls ==
    {[op |-> "setitem", mapping |-> SetTag(NoTags, key, v)] : key \in MetaKeys, v \in MetaValues}
    \cup {[op |-> "delitem", mapping |-> SetTag(NoTags, key, "")] : key \in MetaKeys}
    \cup {[op |-> "update", mapping |-> m] : m \in MetaMappings}

\* isinstance(tag, basestring)
IsBasestring(key) == key.type = "str"

\* the tag map t after the call has been applied to it: create_tags and
\* dict.update overwrite, delete_tags and `del` drop the tag if it is there
Applied(call, t) ==
    IF call.op = "delitem"
    THEN [x \in DOMAIN t \ DOMAIN call.mapping |-> t[x]]
    ELSE Update(t, call.mapping)

\* the tag maps of a running instance
InitialTags == {NoTags, SetTag(NoTags, StrKey("Status"), "started")}

MetaInit ==
    /\ manifests = NoTags /\ order = <<>> /\ resolved = NotCalled
    /\ kind = "Build" /\ zone = FALSE /\ records = {}
    /\ InstallIdle /\ SessIdle /\ R53Idle /\ BranchIdle /\ DoIdle /\ BundleIdle /\ FetchIdle /\ WebIdle /\ PairIdle /\ SftpIdle /\ ThreadsIdle /\ ZonesIdle /\ ExitIdle
    /\ cached \in InitialTags /\ ec2tags = cached
    /\ top = NotCalled /\ tpc = "idle" /\ tbefore = cached /\ treturned = FALSE
    /\ terr = "none" /\ tdone = 0

\* a caller assigns, deletes or updates tags
MetaCall ==
    /\ tpc \in {"idle", "returned", "raised"}
    /\ tdone < MaxOps
    /\ top' \in MetaCalls
    /\ tpc' = "check" /\ tbefore' = cached /\ treturned' = FALSE /\ terr' = "none"
    /\ tdone' = tdone + 1
    /\ UNCHANGED <<mtRest, ec2tags, cached>>

\* lines 490-491, 495-496, 500-503: a tag name that is no string
MetaCheck ==
    /\ tpc = "check"
    /\ IF \A key \in DOMAIN top.mapping : IsBasestring(key)
       THEN tpc' = "provider" /\ terr' = terr
       ELSE tpc' = "raised" /\ terr' = "TypeError"
    /\ UNCHANGED <<mtRest, ec2tags, cached, top, tbefore, treturned, tdone>>

\* MetaProvider as it would be if the local map were written before the
\* provider is called
MetaProviderAfterCache ==
    /\ tpc = "provider"
    /\ cached' = Applied(top, cached)
    /\ \/ /\ ec2tags' = Applied(top, ec2tags)
          /\ tpc' = "returned" /\ treturned' = TRUE /\ terr' = terr
       \/ /\ ec2tags' \in {ec2tags, Applied(top, ec2tags)}
          /\ tpc' = "raised" /\ terr' = "EC2ResponseError" /\ treturned' = treturned
    /\ UNCHANGED <<mtRest, top, tbefore, tdone>>

\* lines 492, 497, 505-508: create_tags or delete_tags at the provider, by
\* add_tag, remove_tag or update; the request may fail, applied or not
MetaProvider ==
    /\ tpc = "provider"
    /\ \/ /\ ec2tags' = Applied(top, ec2tags)
          /\ tpc' = "local" /\ treturned' = TRUE /\ terr' = terr
       \/ /\ ec2tags' \in {ec2tags, Applied(top, ec2tags)}
          /\ tpc' = "raised" /\ terr' = "EC2ResponseError" /\ treturned' = treturned
    /\ UNCHANGED <<mtRest, cached, top, tbefore, tdone>>

\* lines 492, 497, 509: the local map follows, in add_tag, remove_tag or
\* tags.update(mapping)
MetaLocal ==
    /\ tpc = "local"
    /\ cached' = Applied(top, cached)
    /\ tpc' = "returned"
    /\ UNCHANGED <<mtRest, ec2tags, top, tbefore, treturned, terr, tdone>>

MetaNext == MetaCall \/ MetaCheck \/ MetaProvider \/ MetaLocal

SpecMeta == MetaInit /\ [][MetaNext]_vars

(***************************************************************************)
(* Properties of Metadata                                                  *)
(***************************************************************************)
\* C24: an assignment, a deletion or an update of tags through Metadata
\* calls the provider first and changes the local tag map only when that
\* call has returned, to the map with the call applied; when the provider
\* call raises or a tag name is no string, the local map stays as it was
C24_ProviderBeforeCache ==
    /\ [][cached' # cached => /\ treturned /\ tpc = "local"
                              /\ cached' = Applied(top, tbefore)]_vars
    /\ [](tpc = "raised" => cached = tbefore)
    /\ [](tpc = "returned" => cached = Applied(top, tbefore) /\ treturned)
    /\ []((tpc = "raised" /\ terr = "TypeError") => ~treturned /\ cached = tbefore)

\* a first call has set a tag at the provider and locally, and the second
\* call, which would change the map, failed at the provider
C24_Witness_ProviderRaises ==
    /\ tdone = 2 /\ tpc = "raised" /\ terr = "EC2ResponseError"
    /\ cached = tbefore /\ cached # NoTags
    /\ Applied(top, cached) # cached

\* update() with a tag name that is no string among the names
C24_UpdateWithIntegerName ==
    /\ tpc = "raised" /\ terr = "TypeError" /\ top.op = "update"
    /\ Cardinality(DOMAIN top.mapping) = 3

(***************************************************************************)
(* Properties of the exit status of do() and sudo()                        *)
(***************************************************************************)
\* C25: do() and sudo() return the exit status of the remote command,
\* zero or not, and raise nothing because of it; the scope that do() opened
\* is left the same way whatever the status: the depth goes down by one,
\* and the connection is closed exactly if the depth is back at zero
C25_ExitStatusIsReturned ==
    /\ [][spc = "do_exit" =>
            /\ spc' = "run" /\ serr' = NoError
            /\ sret' = sstatus
            /\ sdepth' = sdepth - 1
            /\ stack' = SubSeq(stack, 1, Len(stack) - 1)
            /\ opens' = opens
            /\ IF sdepth = 1
               THEN client' = "none" /\ closes' = closes + 1
               ELSE client' = client /\ closes' = closes]_vars
    /\ [](spc = "do_exit" => \E st \in ExitStatuses : sstatus = <<st>>)
    /\ [](serr.type \in {"none", "socket.error", "SSHException", "AttributeError",
                         "WaitTimeoutError", "AuthenticationException"})

\* sudo() has returned the exit status 1 of its command, and the connection
\* it had opened is closed
C25_Witness_SudoReturnsOne ==
    /\ scall = "sudo" /\ sret = <<1>> /\ spc = "run" /\ serr = NoError
    /\ stack = <<>> /\ sdepth = 0 /\ client = "none"
    /\ opens = 1 /\ closes = 1

\* do() has returned a non-zero status inside a `with instance` block, whose
\* connection stays open
C25_DoReturnsNonZeroInScope ==
    /\ scall = "do" /\ sret = <<127>> /\ spc = "run"
    /\ stack = <<"with">> /\ client = "connected" /\ closes = 0

(***************************************************************************)
(* Dist.bundle_package (dist.py 150-262): the pip bundle run and its       *)
(* retries on the mirrors of PYPI_INDEX_URLS.  A mirror is its index in    *)
(* the list.                                                               *)
(***************************************************************************)
MaxBundles == 3

\* len(PYPI_INDEX_URLS), lines 35-43
NMirrors == 7

\* line 246: if retrial < 3
RetrialLimit == 3

\* PYPI_INDEX_URLS[i:]
MirrorsFrom(i) == [j \in 1..(IF i < NMirrors THEN NMirrors - i ELSE 0) |-> i + j - 1]

\* ShouldRetry as it would be if the retries had no limit
ShouldRetryAlways(r) == TRUE

\* line 246
ShouldRetry(r) == r < RetrialLimit

BundleInit ==
    /\ manifests = NoTags /\ order = <<>> /\ resolved = NotCalled
    /\ kind = "Build" /\ zone = FALSE /\ records = {}
    /\ InstallIdle /\ SessIdle /\ R53Idle /\ BranchIdle /\ MetaIdle /\ DoIdle /\ FetchIdle /\ WebIdle /\ PairIdle /\ SftpIdle /\ ThreadsIdle /\ ZonesIdle /\ ExitIdle
    /\ bcache = FALSE /\ cache_file \in BOOLEAN /\ retrial = 0 /\ bruns = 0
    /\ index_url = 0 /\ extra_index_urls = <<>> /\ bslept = <<>>
    /\ build_dir \in BOOLEAN /\ bundpc = "new" /\ bderr = "none" /\ bcalls = 0

\* lines 176-234: bundle_package(cache) up to the loop; a cached bundle is
\* yielded at once
BundleCall ==
    /\ bundpc \in {"new", "yielded", "raised"}
    /\ bcalls < MaxBundles
    /\ bcalls' = bcalls + 1
    /\ bcache' \in BOOLEAN
    /\ retrial' = 0 /\ bruns' = 0 /\ bslept' = <<>> /\ bderr' = "none"
    /\ IF bcache' /\ cache_file
       THEN /\ bundpc' = "yielded"
            /\ UNCHANGED <<index_url, extra_index_urls>>
       ELSE /\ bundpc' = "rmtree"
            /\ index_url' = 0
            /\ extra_index_urls' = MirrorsFrom(1)
    /\ UNCHANGED <<bdRest, cache_file, build_dir>>

\* lines 237-240: the build directory of an earlier run is removed
BundleRmtree ==
    /\ bundpc = "rmtree"
    /\ build_dir' = FALSE
    /\ bundpc' = "run"
    /\ UNCHANGED <<bdRest, bcache, cache_file, retrial, bruns, index_url, extra_index_urls,
                   bslept, bderr, bcalls>>

\* lines 241-257: bundle.run() and what follows it; the finally clause
\* removes the build directory whatever the run did
BundleRun ==
    /\ bundpc = "run"
    /\ bruns' = bruns + 1
    /\ build_dir' = FALSE
    /\ \/ /\ bundpc' = "save"
          /\ UNCHANGED <<retrial, index_url, extra_index_urls, bslept, bderr>>
       \/ /\ bundpc' = "raised" /\ bderr' = "OSError"
          /\ UNCHANGED <<retrial, index_url, extra_index_urls, bslept>>
       \/ /\ retrial' = retrial + 1
          /\ IF ShouldRetry(retrial')
             THEN IF retrial' < NMirrors
                  THEN /\ index_url' = retrial'
                       /\ extra_index_urls' = MirrorsFrom(retrial' + 1)
                       /\ bslept' = Append(bslept, retrial' * retrial')
                       /\ bundpc' = "rmtree"
                       /\ bderr' = bderr
                  ELSE /\ bundpc' = "raised" /\ bderr' = "IndexError"
                       /\ UNCHANGED <<index_url, extra_index_urls, bslept>>
             ELSE /\ bundpc' = "raised" /\ bderr' = "PipError"
                  /\ UNCHANGED <<index_url, extra_index_urls, bslept>>
    /\ UNCHANGED <<bdRest, bcache, cache_file, bcalls>>

\* lines 258-262: the bundle is copied to the cache and yielded
BundleSave ==
    /\ bundpc = "save"
    /\ cache_file' = (cache_file \/ bcache)
    /\ bundpc' = "yielded"
    /\ UNCHANGED <<bdRest, bcache, retrial, bruns, index_url, extra_index_urls, bslept,
                   build_dir, bderr, bcalls>>

BundleNext == BundleCall \/ BundleRmtree \/ BundleRun \/ BundleSave

SpecBundle == BundleInit /\ [][BundleNext]_vars

(***************************************************************************)
(* Properties of the retries of bundle_package                             *)
(***************************************************************************)
\* C27: bundle_package runs pip bundle at most 3 times in a call; the run
\* after k failures has mirror k of PYPI_INDEX_URLS as its index and just the
\* mirrors after it as extra indexes, and was preceded by a sleep longer
\* than the one before; when the last run fails as well the PipError leaves
\* bundle_package and the cache is not written
C27_BoundedRetries ==
    /\ [](/\ bruns <= 3 /\ retrial <= 3
          /\ bundpc \in {"rmtree", "run"} =>
                /\ bruns = retrial
                /\ index_url = retrial
                /\ extra_index_urls = MirrorsFrom(retrial + 1)
                /\ \A i \in 1..Len(extra_index_urls) : extra_index_urls[i] > index_url
                /\ Len(bslept) = retrial
                /\ \A i \in 1..Len(bslept) : i > 1 => bslept[i] > bslept[i - 1]
          /\ (bundpc = "raised" /\ bderr = "PipError") => bruns = 3 /\ retrial = 3)
    /\ [][bundpc' = "raised" => cache_file' = cache_file /\ bundpc' # "save"]_vars
    /\ [][bundpc = "raised" => cache_file' = cache_file]_vars

\* three runs have failed, on the mirrors 0, 1 and 2 with sleeps of 1 and 4
\* seconds between them, and the PipError has left the call; no cache file
C27_Witness_ThreeFailures ==
    /\ bundpc = "raised" /\ bderr = "PipError"
    /\ bruns = 3 /\ index_url = 2 /\ bslept = <<1, 4>>
    /\ bcache /\ ~cache_file

\* the third run succeeded and its bundle is in the cache
C27_ThirdRunSucceeds ==
    /\ bundpc = "yielded" /\ bruns = 3 /\ index_url = 2 /\ bcache /\ cache_file

(***************************************************************************)
(* Branch.fetch and PullRequest.fetch (branch.py 94-147, 233-262): the     *)
(* scopes of one branch object on its working tree.                        *)
(***************************************************************************)
MaxFetchDepth == 3

\* self.name of the branch object (for a pull request its base branch)
SelfName == "base"

\* the refs that are fetched: two commits and the branch itself
FetchRefs == {"c1", "c2", SelfName}

AtMaster == <<"master", "">>

AtBranch == <<"branch", "">>

\* lines 139 and 257-258: what the tree is at inside a scope of the ref:
\* the ref, or for a pull request the asuka-mergedpullreq branch with the
\* ref merged
TreeFor(cls, ref) == IF cls = "PullRequest" THEN <<"merged", ref>> ELSE <<"ref", ref>>

Scope(ref, mode, base) == [ref |-> ref, mode |-> mode, base |-> base]

\* lines 130-139: reset, checkout and pull, or clone, then the checkout of
\* the branch, its pull and the checkout of the ref
BranchGitCommands(isdir) == IF isdir THEN 6 ELSE 4

\* lines 106-142: Branch.fetch(ref) up to its yield
BranchFetch(ref, isdir) ==
    IF ref \in fetched_paths
    THEN /\ fstack' = Append(fstack, Scope(ref, "reused", "none"))
         /\ lastgit' = 0
         /\ UNCHANGED <<fetched_paths, tree>>
    ELSE /\ fstack' = Append(fstack, Scope(ref, "fetched", "none"))
         /\ fetched_paths' = fetched_paths \cup {ref}
         /\ tree' = TreeFor("Branch", ref)
         /\ lastgit' = BranchGitCommands(isdir)

\* lines 235-260: PullRequest.fetch(ref) up to its yield: the test of
\* fetched_paths, Branch.fetch(self.name), then the seven git commands that
\* merge the ref into the base
PullRequestFetch(ref, isdir) ==
    IF ref \in fetched_paths
    THEN /\ fstack' = Append(fstack, Scope(ref, "reused", "none"))
         /\ lastgit' = 0
         /\ UNCHANGED <<fetched_paths, tree>>
    ELSE /\ fstack' = Append(fstack, Scope(ref, "fetched",
                                IF SelfName \in fetched_paths THEN "reused" ELSE "fetched"))
         /\ fetched_paths' = fetched_paths \cup {SelfName}
         /\ tree' = TreeFor("PullRequest", ref)
         /\ lastgit' = (IF SelfName \in fetched_paths THEN 0 ELSE BranchGitCommands(isdir)) + 7

FetchInit ==
    /\ manifests = NoTags /\ order = <<>> /\ resolved = NotCalled
    /\ kind = "Build" /\ zone = FALSE /\ records = {}
    /\ InstallIdle /\ SessIdle /\ R53Idle /\ BranchIdle /\ MetaIdle /\ DoIdle /\ BundleIdle /\ WebIdle /\ PairIdle /\ SftpIdle /\ ThreadsIdle /\ ZonesIdle /\ ExitIdle
    /\ fcls \in {"Branch", "PullRequest"}
    /\ fetched_paths = {} /\ fstack = <<>> /\ tree = AtMaster /\ lastgit = 0
    /\ fmixed = FALSE

\* with branch.fetch(ref) as path: the scope is entered
Fetch ==
    /\ Len(fstack) < MaxFetchDepth
    /\ \E ref \in FetchRefs, isdir \in BOOLEAN :
          /\ IF fcls = "PullRequest" THEN PullRequestFetch(ref, isdir)
                                     ELSE BranchFetch(ref, isdir)
          /\ fmixed' = (fmixed \/ \E i \in 1..Len(fstack) : fstack[i].ref # ref)
    /\ UNCHANGED <<ftRest, fcls>>

\* lines 143-147 and 261-262: the innermost scope ends and its generator
\* runs on after the yield
FetchExit ==
    /\ fstack # <<>>
    /\ LET top_ == fstack[Len(fstack)]
       IN  /\ fstack' = SubSeq(fstack, 1, Len(fstack) - 1)
           /\ IF top_.mode = "reused"
              THEN /\ lastgit' = 0
                   /\ UNCHANGED <<fetched_paths, tree>>
              ELSE IF top_.base = "reused"
              THEN /\ lastgit' = 2
                   /\ tree' = AtBranch
                   /\ UNCHANGED fetched_paths
              ELSE /\ lastgit' = IF fcls = "PullRequest" THEN 5 ELSE 3
                   /\ tree' = AtMaster
                   /\ fetched_paths' =
                        fetched_paths \ {IF fcls = "PullRequest" THEN SelfName ELSE top_.ref}
    /\ fmixed' = (fmixed /\ Len(fstack) > 1)
    /\ UNCHANGED <<ftRest, fcls>>

FetchNext == Fetch \/ FetchExit

SpecFetch == FetchInit /\ [][FetchNext]_vars

(***************************************************************************)
(* Properties of the fetch scopes                                          *)
(***************************************************************************)
\* C26 as claimed: for a Branch and for a PullRequest, while only scopes of
\* one ref are open, a fetch of that ref inside such a scope runs no git
\* command, the working tree stays at the ref, and the end of an inner scope
\* runs no git command and cleans nothing up
C26_FetchIsReentrant ==
    /\ []((fstack # <<>> /\ ~fmixed) => tree = TreeFor(fcls, fstack[1].ref))
    /\ [][(fstack # <<>> /\ ~fmixed' /\ Len(fstack') > Len(fstack)) =>
              /\ lastgit' = 0 /\ tree' = tree
              /\ fstack'[Len(fstack')].mode = "reused"]_vars
    /\ [][(Len(fstack) > 1 /\ ~fmixed /\ Len(fstack') < Len(fstack)) =>
              /\ lastgit' = 0 /\ tree' = tree
              /\ fetched_paths' = fetched_paths]_vars

\* the same for plain branches only
C26_BranchFetchIsReentrant ==
    /\ []((fcls = "Branch" /\ fstack # <<>> /\ ~fmixed) => tree = TreeFor(fcls, fstack[1].ref))
    /\ [][(fcls = "Branch" /\ fstack # <<>> /\ ~fmixed' /\ Len(fstack') > Len(fstack)) =>
              /\ lastgit' = 0 /\ tree' = tree
              /\ fstack'[Len(fstack')].mode = "reused"]_vars
    /\ [][(fcls = "Branch" /\ Len(fstack) > 1 /\ ~fmixed /\ Len(fstack') < Len(fstack)) =>
              /\ lastgit' = 0 /\ tree' = tree
              /\ fetched_paths' = fetched_paths]_vars

\* a pull request whose commit was fetched twice, one scope in the other: the
\* inner scope has ended and the tree is back at the base branch
C26_PullRequestScopeLeftTree ==
    /\ fcls = "PullRequest" /\ ~fmixed
    /\ Len(fstack) = 1 /\ fstack[1].ref = "c1"
    /\ tree = AtBranch /\ lastgit = 2

(***************************************************************************)
(* The web hook and the pool workers (web.py 229-402, 429-465): the server *)
(* process hands tasks to a multiprocessing pool and a pool process runs   *)
(* the worker functions.                                                   *)
(***************************************************************************)
MaxRequests == 3

NoTask == [task |-> "none"]

\* the worker function that a task starts with: redeploy_worker calls
\* cleanup_worker, then deploy_worker (lines 301-303)
FirstWorker(task) ==
    CASE task = "deploy" -> "deploy_worker"
      [] task = "promote" -> "promote_worker"
      [] OTHER -> "cleanup_worker"

Running(task, fn, failures) == [task |-> task, fn |-> fn, pc |-> "setup", failures |-> failures]

WebInit ==
    /\ manifests = NoTags /\ order = <<>> /\ resolved = NotCalled
    /\ kind = "Build" /\ zone = FALSE /\ records = {}
    /\ InstallIdle /\ SessIdle /\ R53Idle /\ BranchIdle /\ MetaIdle /\ DoIdle /\ BundleIdle /\ FetchIdle /\ PairIdle /\ SftpIdle /\ ThreadsIdle /\ ZonesIdle /\ ExitIdle
    /\ WebIdle

\* a request is answered and counted
Respond(response) ==
    /\ wreq < MaxRequests
    /\ wreq' = wreq + 1
    /\ wresponses' = Append(wresponses, response)

\* lines 245-246 and 259-260: the commit message asks to be ignored or the
\* repository has no configuration directory
HookIgnored ==
    /\ Respond("ignored")
    /\ UNCHANGED <<wbRest, wqueue, wrunning, wraised, wlogged, wresults>>

\* lines 261-265, 276-289, 306-312 and 395-401: hook_push or
\* hook_pull_request hands the deployment or the cleanup to the pool, and
\* the handler returns
HookOkay ==
    /\ Respond("okay")
    /\ \E task \in {"deploy", "cleanup"} : wqueue' = Append(wqueue, task)
    /\ UNCHANGED <<wbRest, wrunning, wraised, wlogged, wresults>>

\* lines 232-235, 278-279: an assertion on the request fails or the payload
\* names a pull request that cannot be merged: the handler raises and the
\* server answers with an error
HookRaises ==
    /\ Respond("error")
    /\ UNCHANGED <<wbRest, wqueue, wrunning, wraised, wlogged, wresults>>

\* lines 186-226, 292-298 and 332-338: the pages that start a promotion, a
\* redeployment or a cleanup
PageStarts ==
    /\ Respond("started")
    /\ \E task \in {"promote", "redeploy", "cleanup"} : wqueue' = Append(wqueue, task)
    /\ UNCHANGED <<wbRest, wrunning, wraised, wlogged, wresults>>

\* a pool process takes the next task and calls its worker function
WorkerTakes ==
    /\ wrunning = NoTask
    /\ wqueue # <<>>
    /\ wrunning' = Running(Head(wqueue), FirstWorker(Head(wqueue)), 0)
    /\ wqueue' = Tail(wqueue)
    /\ UNCHANGED <<wbRest, wresponses, wraised, wlogged, wresults, wreq>>

\* the worker function returns: redeploy_worker goes on with deploy_worker,
\* any other task is over
Returns(failures) ==
    IF wrunning.task = "redeploy" /\ wrunning.fn = "cleanup_worker"
    THEN /\ wrunning' = Running("redeploy", "deploy_worker", failures)
         /\ UNCHANGED wresults
    ELSE /\ wrunning' = NoTask
         /\ wresults' = Append(wresults, [outcome |-> "returned", failures |-> failures])

\* lines 313-314, 342-343, 430-431: find_by_label() and Commit() before the
\* try statement; their exception leaves the worker function and the pool
\* keeps it in the result of the task, which nobody reads
WorkerSetup ==
    /\ wrunning # NoTask /\ wrunning.pc = "setup"
    /\ \/ /\ wrunning' = [wrunning EXCEPT !.pc = "try"]
          /\ UNCHANGED wresults
       \/ /\ wrunning' = NoTask
          /\ wresults' = Append(wresults, [outcome |-> "error", failures |-> wrunning.failures])
    /\ UNCHANGED <<wbRest, wqueue, wresponses, wraised, wlogged, wreq>>

\* lines 316-326, 345-371, 433-463: the body of the try statement runs to
\* its end
WorkerFinishes ==
    /\ wrunning # NoTask /\ wrunning.pc = "try"
    /\ Returns(wrunning.failures)
    /\ UNCHANGED <<wbRest, wqueue, wresponses, wraised, wlogged, wreq>>

\* WorkerCatches as it would be without the except clause
WorkerDoesNotCatch ==
    /\ wrunning # NoTask /\ wrunning.pc = "try"
    /\ wraised' = wraised + 1
    /\ wrunning' = NoTask
    /\ wresults' = Append(wresults, [outcome |-> "error", failures |-> wrunning.failures + 1])
    /\ UNCHANGED <<wbRest, wqueue, wresponses, wlogged, wreq>>

\* lines 327-328, 372-373, 464-465: install() or uninstall() raises, and
\* `except Exception as e: logger.exception(e)` ends the worker function
WorkerCatches ==
    /\ wrunning # NoTask /\ wrunning.pc = "try"
    /\ wraised' = wraised + 1
    /\ wlogged' = wlogged + 1
    /\ Returns(wrunning.failures + 1)
    /\ UNCHANGED <<wbRest, wqueue, wresponses, wreq>>

WebNext ==
    \/ HookIgnored \/ HookOkay \/ HookRaises \/ PageStarts
    \/ WorkerTakes \/ WorkerSetup \/ WorkerFinishes \/ WorkerCatches

SpecWeb == WebInit /\ [][WebNext]_vars

(***************************************************************************)
(* Properties of the pool workers and the web hook                         *)
(***************************************************************************)
\* C28: every exception that install() or uninstall() raises in a pool
\* worker is logged by the worker function, which then returns as after a
\* success, so that no failure is handed to the pool or to the server; the
\* web hook answers when it hands the task over: the task is queued in the
\* step that answers 'okay', and no step of a worker adds or changes a
\* response
C28_FailuresStayInWorker ==
    /\ [](wlogged = wraised)
    /\ [][wraised' # wraised =>
              /\ wraised' = wraised + 1 /\ wlogged' = wlogged + 1
              /\ \/ wresults' = wresults /\ wrunning'.task = "redeploy"
                 \/ /\ wresults' = Append(wresults, wresults'[Len(wresults')])
                    /\ wresults'[Len(wresults')].outcome = "returned"
                    /\ wrunning' = NoTask]_vars
    /\ [](\A i \in 1..Len(wresponses) :
              wresponses[i] \in {"okay", "ignored", "error", "started"})
    /\ [][wresponses' # wresponses =>
              /\ Len(wresponses') = Len(wresponses) + 1
              /\ SubSeq(wresponses', 1, Len(wresponses)) = wresponses
              /\ wrunning' = wrunning /\ wresults' = wresults
              /\ wraised' = wraised /\ wlogged' = wlogged
              /\ wresponses'[Len(wresponses')] = "okay" => Len(wqueue') = Len(wqueue) + 1
              /\ wresponses'[Len(wresponses')] = "ignored" => wqueue' = wqueue]_vars
    /\ [][(wrunning' # wrunning \/ wresults' # wresults \/ wraised' # wraised)
              => wresponses' = wresponses]_vars

\* the hook has answered 'okay', and the deployment it started has failed
\* in install(): the failure is logged and the worker function has returned
C28_Witness_InstallFailed ==
    /\ wresponses = <<"okay">>
    /\ wresults = <<[outcome |-> "returned", failures |-> 1]>>
    /\ wraised = 1 /\ wlogged = 1 /\ wrunning = NoTask

\* the hook has answered while the task it started still waits in the pool
C28_AnsweredBeforeTaskRuns ==
    /\ wresponses = <<"okay">> /\ Len(wqueue) = 1 /\ wrunning = NoTask /\ wresults = <<>>

\* both halves of a redeployment have failed and both failures are logged
C28_RedeployFailedTwice ==
    /\ Len(wresults) = 1 /\ wresults[1] = [outcome |-> "returned", failures |-> 2]
    /\ wlogged = 2

(***************************************************************************)
(* The bootstrap worker's package index (build.py, lines 291-335)          *)
(***************************************************************************)
WPos(entry) == {i \in 1..Len(wlog) : wlog[i] = entry}

\* C32: in every run of the bootstrap worker the package index is refreshed
\* (aptitude update) after /etc/apt/sources.list was rewritten and before
\* the bulk install of the packages, also when no resolved service requires
\* a repository
C32_IndexRefreshedBeforeInstall ==
    \A i \in WPos(<<"apt-fast install">>) :
        \E s \in WPos(<<"sources.list">>), u \in WPos(<<"aptitude update">>) :
            /\ s < u /\ u < i
            /\ \A a \in WPos(<<"apt-add-repository">>) : a < u

\* C35: in every execution of Build.install the bootstrap worker eventually
\* ends (it finishes or it fails), also when the main line fails before it
\* has set the flag and notified the condition
C35_WorkerEventuallyEnds == <>WorkerEnded

(***************************************************************************)
(* Two builds of one branch at the same time: deploy() hands each to the   *)
(* pool (web.py 381-387), each runs Build.install on its own instance.     *)
(***************************************************************************)
\* the length of a full ref in the model, for the 40 characters of a SHA1
MaxRefLen == 2

HexChars == {"a", "b"}

RefChars == HexChars \cup {"\n"}

\* the strings that are given to Commit() as ref
RefInputs == UNION {[1..n -> RefChars] : n \in 1..MaxRefLen}

\* commit.py 34: REF_PATTERN.match(ref) for ^[A-Fa-f0-9]{6,40}$; `$` matches
\* at the end of the string and also before a newline that ends the string
REF_PATTERN(ref) ==
    LET digits == IF ref # <<>> /\ ref[Len(ref)] = "\n"
                  THEN SubSeq(ref, 1, Len(ref) - 1) ELSE ref
    IN  /\ digits # <<>>
        /\ \A i \in 1..Len(digits) : digits[i] \in HexChars

\* commit.py 43-54: the values of self.ref Commit.__init__ ends with; a ref
\* shorter than a full one is replaced by the sha GitHub knows for it
Commit__init__(ref) ==
    IF ~REF_PATTERN(ref) THEN {}
    ELSE IF Len(ref) < MaxRefLen
         THEN {sha \in [1..MaxRefLen -> HexChars] :
                  SubSeq(sha, 1, Len(Strip(ref))) = Strip(ref)}
         ELSE {ref}

CommitRefs == UNION {Commit__init__(ref) : ref \in RefInputs}

Builders == {1, 2}

\* the instance web.py 448 creates for the build
InstanceOf(p) == IF p = 1 THEN "i-1" ELSE "i-2"

\* lines 457-473: update_instance_metadata of a build of commit ref
tag_dict(kd, ref, extra) ==
    Update([Name   |-> <<AppName, IF kd = "Promote" THEN "live" ELSE BranchLabel, ref>>,
            App    |-> AppName,
            Branch |-> BranchLabel,
            Commit |-> ref,
            Live   |-> live(kd)], extra)

\* lines 475-483: Build.replaced_instances of a build of commit ref
replaced_by(kd, ref, world) ==
    {i \in BaseReplacedInstances(world) :
        /\ Strip(Get(world[i], "Commit")) # ref
        /\ Get(world[i], "Live") = live(kd)}

\* the instances that some build has terminated
Gone == UNION {pterm[p] : p \in DOMAIN pterm}

PairInit ==
    /\ manifests = NoTags /\ order = <<>> /\ resolved = NotCalled
    /\ InstallIdle /\ SessIdle /\ R53Idle /\ BranchIdle /\ MetaIdle /\ DoIdle /\ BundleIdle /\ FetchIdle /\ WebIdle /\ SftpIdle /\ ThreadsIdle /\ ZonesIdle /\ ExitIdle
    /\ pkind \in {"Build", "Promote"}
    /\ pref \in [Builders -> CommitRefs]
    /\ ppc = [p \in Builders |-> "created"]
    /\ ptags = [i \in {InstanceOf(p) : p \in Builders} |-> NoTags]
    /\ pterm = [p \in Builders |-> {}]

\* a build goes from one step to the next
PairStep(p, from, to) ==
    /\ ppc[p] = from
    /\ ppc' = [ppc EXCEPT ![p] = to]
    /\ UNCHANGED <<pkind, pref, prRest>>

\* line 347: update_instance_metadata({'Status': 'started'})
PairTagStarted(p) ==
    /\ PairStep(p, "created", "started")
    /\ ptags' = [ptags EXCEPT ![InstanceOf(p)] =
                    Update(@, tag_dict(pkind, pref[p], [Status |-> "started"]))]
    /\ UNCHANGED pterm

\* lines 349-432: the fetch, the uploads, the installation and the routes;
\* the commands over SSH need the instance to run
PairInstall(p) ==
    /\ InstanceOf(p) \notin Gone
    /\ PairStep(p, "started", "installed")
    /\ UNCHANGED <<ptags, pterm>>

\* line 435: self.instance.tags['Status'] = 'done'
PairTagDone(p) ==
    /\ PairStep(p, "installed", "tag_done")
    /\ ptags' = [ptags EXCEPT ![InstanceOf(p)] = SetTag(@, "Status", "done")]
    /\ UNCHANGED pterm

\* line 436 and lines 201-210: self.terminate_instances(); an
\* EC2ResponseError is logged and swallowed
PairTerminate(p) ==
    /\ PairStep(p, "tag_done", "done")
    /\ \E ec2_error \in BOOLEAN :
         pterm' = [pterm EXCEPT ![p] =
                      IF ec2_error THEN {} ELSE replaced_by(pkind, pref[p], ptags)]
    /\ UNCHANGED ptags

\* an exception leaves install; deploy_worker logs it (web.py 465-466)
PairRaises(p) ==
    /\ ppc[p] \in {"created", "started", "installed"}
    /\ PairStep(p, ppc[p], "failed")
    /\ UNCHANGED <<ptags, pterm>>

PairNext ==
    \E p \in Builders :
        \/ PairTagStarted(p) \/ PairInstall(p) \/ PairTagDone(p) \/ PairTerminate(p)
        \/ PairRaises(p)

SpecPair == PairInit /\ [][PairNext]_vars

\* a build is between its 'started' milestone and the end of install
Installing(p) == ppc[p] \in {"started", "installed", "tag_done"}

\* C36: of two builds of the same branch and live-ness with different
\* commits that run at the same time, neither terminates the instance of
\* the other while the other still installs onto it, and once both have
\* finished at least one of the two new instances still runs
C36_ConcurrentBuildsSpareEachOther ==
    \A p \in Builders, q \in Builders :
        (p # q /\ Strip(pref[p]) # Strip(pref[q])) =>
            /\ ~(Installing(q) /\ InstanceOf(q) \in pterm[p])
            /\ (ppc[p] = "done" /\ ppc[q] = "done") =>
                   \E r \in Builders : InstanceOf(r) \notin Gone

\* C37: a build never terminates the instance it installs onto: from the
\* 'started' milestone on the Commit tag of that instance is the ref of the
\* build, and the instance is not among the build's replaced_instances
C37_NeverTerminatesOwnInstance ==
    \A p \in Builders :
        /\ InstanceOf(p) \notin pterm[p]
        /\ (Installing(p) \/ ppc[p] = "done") =>
               /\ Get(ptags[InstanceOf(p)], "Commit") = pref[p]
               /\ InstanceOf(p) \notin replaced_by(pkind, pref[p], ptags)

(***************************************************************************)
(* The depth counter of Instance.__enter__ / __exit__ after failures       *)
(***************************************************************************)
\* C33: after any sequence of acquisitions on one thread, failed ones
\* included, the depth counter is the number of the scopes that are open,
\* and an acquisition hands out a client that is there and connected
C33_DepthCountsOpenScopes ==
    /\ InScopes => sdepth = Len(stack)
    /\ spc = "return_client" => client = "connected"

(***************************************************************************)
(* Instance.sftp (instance.py, lines 271-293) with __enter__ / __exit__    *)
(* (128-163) on one thread whose connections succeed.                      *)
(***************************************************************************)
\* the scopes one thread enters
MaxSftpCalls == 4

\* no attribute sftp_client yet
NoSftpClient == [conn |-> 0, open |-> FALSE]

SftpInit ==
    /\ manifests = NoTags /\ order = <<>> /\ resolved = NotCalled
    /\ InstallIdle /\ SessIdle /\ R53Idle /\ BranchIdle /\ MetaIdle /\ DoIdle /\ BundleIdle /\ FetchIdle /\ WebIdle /\ PairIdle /\ ThreadsIdle /\ ZonesIdle /\ ExitIdle
    /\ xdepth = 0 /\ xclient = 0 /\ xopens = 0 /\ sftp_depth = 0
    /\ sftp_client = NoSftpClient
    /\ xstack = <<>> /\ xpc = "run" /\ xcalls = 0

\* lines 128-156: __enter__ that connects at depth 1
enter ==
    /\ xdepth' = xdepth + 1
    /\ IF xdepth + 1 < 2
       THEN /\ xopens' = xopens + 1
            /\ xclient' = xopens + 1
       ELSE UNCHANGED <<xopens, xclient>>

\* lines 158-163: __exit__ closes the connection at depth 0
exit ==
    /\ xdepth' = xdepth - 1
    /\ xclient' = IF xdepth - 1 = 0 THEN 0 ELSE xclient

\* a scope is entered
Push(scope) ==
    /\ xpc = "run"
    /\ xcalls < MaxSftpCalls
    /\ Len(xstack) < MaxScopes
    /\ xcalls' = xcalls + 1
    /\ xstack' = Append(xstack, scope)
    /\ UNCHANGED <<xpc, sfRest>>

\* the innermost scope is left
Pop(scope) ==
    /\ xstack # <<>>
    /\ xstack[Len(xstack)] = scope
    /\ xstack' = SubSeq(xstack, 1, Len(xstack) - 1)
    /\ UNCHANGED <<xpc, xcalls, sfRest>>

\* with instance:
SftpWith ==
    /\ Push("with")
    /\ enter
    /\ UNCHANGED <<sftp_depth, sftp_client>>

\* the end of a `with instance` block, normal or not
SftpEndWith ==
    /\ Pop("with")
    /\ exit
    /\ UNCHANGED <<xopens, sftp_depth, sftp_client>>

\* lines 285-290: with instance.sftp(), up to the yield
SftpEnter ==
    /\ Push("sftp")
    /\ enter
    /\ sftp_client' = IF sftp_depth = 0 THEN [conn |-> xclient', open |-> TRUE]
                      ELSE sftp_client
    /\ sftp_depth' = sftp_depth + 1

\* SftpRaised as it would be with the lines after the yield in a finally
\* clause
SftpRaisedFinally ==
    /\ xpc = "raising"
    /\ Pop("sftp")
    /\ sftp_depth' = sftp_depth - 1
    /\ sftp_client' = IF sftp_depth - 1 = 0 THEN [sftp_client EXCEPT !.open = FALSE]
                      ELSE sftp_client
    /\ exit
    /\ UNCHANGED xopens

\* lines 291-293 and the end of `with self`: the body of the scope ends
SftpExit ==
    /\ xpc = "run"
    /\ Pop("sftp")
    /\ sftp_depth' = sftp_depth - 1
    /\ sftp_client' = IF sftp_depth - 1 = 0 THEN [sftp_client EXCEPT !.open = FALSE]
                      ELSE sftp_client
    /\ exit
    /\ UNCHANGED xopens

\* the body raised: the exception is thrown into the generator at the yield
\* of line 290 and leaves it through `with self`, whose __exit__ runs; the
\* lines 291-293 do not
SftpRaised ==
    /\ xpc = "raising"
    /\ Pop("sftp")
    /\ exit
    /\ UNCHANGED <<xopens, sftp_depth, sftp_client>>

\* the body of the innermost scope raises
SftpBodyRaises ==
    /\ xpc = "run"
    /\ xstack # <<>>
    /\ xpc' = "raising"
    /\ UNCHANGED <<xdepth, xclient, xopens, sftp_depth, sftp_client, xstack, xcalls, sfRest>>

\* the caller catches the exception
SftpCatch ==
    /\ xpc = "raising"
    /\ xpc' = "run"
    /\ UNCHANGED <<xdepth, xclient, xopens, sftp_depth, sftp_client, xstack, xcalls, sfRest>>

SftpNext ==
    \/ SftpWith \/ SftpEndWith \/ SftpEnter \/ SftpExit \/ SftpRaised \/ SftpBodyRaises
    \/ SftpCatch

SpecSftp == SftpInit /\ [][SftpNext]_vars

\* the sftp() scopes that are open
SftpScopes == {i \in 1..Len(xstack) : xstack[i] = "sftp"}

\* C34: the SFTP sub-session keeps its depth on every way out: once the
\* outermost sftp() scope has ended, normally or by an exception of its body,
\* sftp_depth is 0 and the SFTP client is closed; sftp_depth > 0 never holds
\* while the thread has no connection, and inside an sftp() scope the client
\* handed out belongs to the connection that is open
C34_SftpDepthDiscipline ==
    xpc = "run" =>
        /\ SftpScopes = {} => sftp_depth = 0 /\ ~sftp_client.open
        /\ sftp_depth > 0 => xclient # 0
        /\ SftpScopes # {} => sftp_client.open /\ sftp_client.conn = xclient

(***************************************************************************)
(* One Instance, two threads: the main line of Build.install and its       *)
(* bootstrap worker (build.py 282-284 and 360-432; instance.py 125-163)    *)
(***************************************************************************)
Threads == {"main", "worker"}

\* threading.local as it would be if all threads shared one namespace
local_shared(t) == "main"

\* line 125: self.local = threading.local(); each thread that reads or
\* writes an attribute of it uses a namespace of its own
local(t) == t

ThreadsInit ==
    /\ manifests = NoTags /\ order = <<>> /\ resolved = NotCalled
    /\ InstallIdle /\ SessIdle /\ R53Idle /\ BranchIdle /\ MetaIdle /\ DoIdle /\ BundleIdle /\ FetchIdle /\ WebIdle /\ PairIdle /\ SftpIdle /\ ZonesIdle /\ ExitIdle
    /\ ldepth = [t \in Threads |-> 0]
    /\ lclient = [t \in Threads |-> 0]
    /\ lconns = {} /\ lnext = 0
    /\ lheld = [t \in Threads |-> <<>>]
    /\ lcalls = [t \in Threads |-> 0]

\* lines 128-156: __enter__ on thread t; at depth 1 it connects, or
\* wait_state() raises, or connect() raises and leaves a client that is not
\* connected; at a depth above 1 the client may be missing
ThreadEnter(t) ==
    /\ lcalls[t] < MaxCalls
    /\ Len(lheld[t]) < MaxScopes
    /\ lcalls' = [lcalls EXCEPT ![t] = @ + 1]
    /\ ldepth' = [ldepth EXCEPT ![local(t)] = @ + 1]
    /\ IF ldepth[local(t)] + 1 < 2
       THEN \/ /\ lnext' = lnext + 1
               /\ lconns' = lconns \cup {lnext + 1}
               /\ lclient' = [lclient EXCEPT ![local(t)] = lnext + 1]
               /\ lheld' = [lheld EXCEPT ![t] = Append(@, lnext + 1)]
            \/ UNCHANGED <<lnext, lconns, lclient, lheld>>
            \/ /\ lnext' = lnext + 1
               /\ lclient' = [lclient EXCEPT ![local(t)] = lnext + 1]
               /\ UNCHANGED <<lconns, lheld>>
       ELSE /\ lheld' = IF lclient[local(t)] = 0 THEN lheld
                        ELSE [lheld EXCEPT ![t] = Append(@, lclient[local(t)])]
            /\ UNCHANGED <<lnext, lconns, lclient>>
    /\ UNCHANGED thRest

\* lines 158-163: __exit__ of the innermost scope of thread t
ThreadExit(t) ==
    /\ lheld[t] # <<>>
    /\ lheld' = [lheld EXCEPT ![t] = SubSeq(@, 1, Len(@) - 1)]
    /\ ldepth' = [ldepth EXCEPT ![local(t)] = @ - 1]
    /\ IF ldepth[local(t)] - 1 = 0
       THEN /\ lconns' = lconns \ {lclient[local(t)]}
            /\ lclient' = [lclient EXCEPT ![local(t)] = 0]
       ELSE UNCHANGED <<lconns, lclient>>
    /\ UNCHANGED <<lnext, lcalls, thRest>>

ThreadsNext == \E t \in Threads : ThreadEnter(t) \/ ThreadExit(t)

SpecThreads == ThreadsInit /\ [][ThreadsNext]_vars

\* the clients the open scopes of thread t were given
HeldBy(t) == {lheld[t][i] : i \in 1..Len(lheld[t])}

\* C31: the session state is that of the thread: no client is handed to
\* scopes of both threads, and whatever the interleaving of the main line and
\* the worker, a step that leaves the scopes of a thread as they are (a
\* step of the other thread, its last exit included) closes no connection
\* that a scope of the thread was given
C31_SessionPerThread ==
    [][\A t \in Threads :
          /\ \A u \in Threads \ {t} : HeldBy(t)' \cap HeldBy(u)' = {}
          /\ lheld'[t] = lheld[t] => (HeldBy(t) \cap lconns) \subseteq lconns']_vars

\* the worker has opened and closed a connection of its own while the main
\* line is in a scope it entered before
C31_Witness_WorkerClosedItsOwn ==
    /\ lheld["main"] # <<>>
    /\ lheld["worker"] = <<>> /\ ldepth["worker"] = 0 /\ lcalls["worker"] > 0
    /\ \E c \in 1..lnext : c > lheld["main"][1] /\ c \notin lconns
    /\ lheld["main"][1] \in lconns

(***************************************************************************)
(* Properties of Clean.uninstall                                           *)
(***************************************************************************)
\* the instances that carry the tags of this app and this branch label
OfBranch(f) ==
    {i \in DOMAIN f : /\ DOMAIN f[i] # {}
                      /\ f[i].App = AppName
                      /\ f[i].Branch = BranchLabel}

\* the entries of the log that stage a removal, commit or uninstall
CleanWork == {i \in 1..Len(mlog) : mlog[i][1] \in {"remove_domain", "commit", "uninstall"}}

AppZoneId == "Z-TEST"

LiveZoneId == "Z-LIVE"

\* the apex of the app's ordinary zone and the domain of the branch in it
TestTopName == "test.example.com."

BranchDomain == "branch-foo.test.example.com."

\* the record sets the ordinary zone may hold
TestZones ==
    {<<>>} \cup
    {<<Record(BranchDomain, "CNAME", "300", None, None, <<v>>, None, None, None)>> :
        v \in {dualstack_dns_name, "dualstack.old.elb.amazonaws.com."}}

\* the record sets the live zone may hold
LiveZones == {z \in Zones : \A i \in 1..Len(z) : z[i].identifier = None}

\* build.py 164-167 and 522-525: route53_hosted_zone_id of a build, the
\* zone its changeset is made for (414-421, 497-502)
route53_hosted_zone_id(kd) == IF kd = "Promote" THEN LiveZoneId ELSE AppZoneId

\* the records of the build: route53_records or route53_live_records
ZoneDomains(kd) == IF kd = "Promote" THEN {TopName, SubName} ELSE {BranchDomain}

\* elb.py 155 and 227: zone_id = self.app.route53_hosted_zone_id
zone_id(kd) == AppZoneId

\* elb.py 154-213 with the zone named by zone_id: topname is the Name of
\* get_hosted_zone(zone_id), the listings are get_all_rrsets(zone_id, ...)
route_domain_in(z, name, changes_) ==
    IF z.Name = name
    THEN ApexGoal(ApexGoal(changes_, z.rrsets, name, "A", dns_name),
                  z.rrsets, name, "AAAA", ipv6_dns_name)
    ELSE CnameGoal(changes_, z.rrsets, name)

\* elb.py 226-261 with the zone named by zone_id
remove_domain_in(z, name, changes_) ==
    IF z.Name = name
    THEN DeleteAll(DeleteAll(changes_, get_all_rrsets(z.rrsets, "A", name), 1, "A", name,
                             <<HostedZoneId, dns_name>>),
                   get_all_rrsets(z.rrsets, "A", name), 1, "A", name,
                   <<HostedZoneId, ipv6_dns_name>>)
    ELSE DeleteAll(changes_, get_all_rrsets(z.rrsets, "CNAME", name), 1, "CNAME", name,
                   <<None, None>>)

ZonesInit ==
    /\ manifests = NoTags /\ order = <<>> /\ resolved = NotCalled
    /\ InstallIdle /\ SessIdle /\ R53Idle /\ BranchIdle /\ MetaIdle /\ DoIdle /\ BundleIdle /\ FetchIdle /\ WebIdle /\ PairIdle /\ SftpIdle /\ ThreadsIdle /\ ExitIdle
    /\ zkind \in {"Build", "Promote", "Clean"}
    /\ zname \in ZoneDomains(zkind)
    /\ \E t \in TestZones, l \in LiveZones :
         zzones = [id \in {AppZoneId, LiveZoneId} |->
                      IF id = AppZoneId THEN [Name |-> TestTopName, rrsets |-> t]
                      ELSE [Name |-> TopName, rrsets |-> l]]
    /\ zscope = "" /\ zlooked = "" /\ zchanges = <<>> /\ zpc = "start"

\* build.py 414-421 and 497-502: the changeset of the build's zone
ZoneChangeset ==
    /\ zpc = "start"
    /\ zpc' = "changeset"
    /\ zscope' = route53_hosted_zone_id(zkind)
    /\ UNCHANGED <<zkind, zname, zzones, zlooked, zchanges, znRest>>

\* build.py 431: service.route_domain(domain, changeset) of a build or a
\* promotion
ZoneRoute ==
    /\ zpc = "changeset" /\ zkind # "Clean"
    /\ zpc' = "routed"
    /\ zlooked' = zone_id(zkind)
    /\ zchanges' = route_domain_in(zzones[zone_id(zkind)], zname, zchanges)
    /\ UNCHANGED <<zkind, zname, zzones, zscope, znRest>>

\* build.py 510: service.remove_domain(domain, changeset) of a cleaning
ZoneRemove ==
    /\ zpc = "changeset" /\ zkind = "Clean"
    /\ zpc' = "removed"
    /\ zlooked' = zone_id(zkind)
    /\ zchanges' = remove_domain_in(zzones[zone_id(zkind)], zname, zchanges)
    /\ UNCHANGED <<zkind, zname, zzones, zscope, znRest>>

ZonesNext == ZoneChangeset \/ ZoneRoute \/ ZoneRemove

SpecZones == ZonesInit /\ [][ZonesNext]_vars

\* C39: route_domain and remove_domain look for the existing records, and
\* take the apex, in the hosted zone the changeset they are given is made
\* for; the changeset of a Promote is made for the live zone, so the changes
\* are those that the records of the live zone call for
C39_LookupInChangesetZone ==
    /\ zpc \in {"routed", "removed"} => zlooked = zscope
    /\ zpc = "routed" => zchanges = route_domain_in(zzones[zscope], zname, <<>>)
    /\ zpc = "removed" => zchanges = remove_domain_in(zzones[zscope], zname, <<>>)

(***************************************************************************)
(* The exit statuses of the commands of Build.install                      *)
(***************************************************************************)
\* C38: Build.install never makes a failure of the non-zero exit status of
\* a command: the step in which an apt, pip, pre-install or post-install
\* command exits non-zero leaves neither the main line nor the worker
\* failed, and the main line goes on to the step that follows
C38_NonZeroExitIsNoFailure ==
    [][(nonzero = "no" /\ nonzero' = "yes") =>
           /\ mpc' = "failed" => mpc = "failed"
           /\ wpc' = "failed" => wpc = "failed"
           /\ mpc' # mpc \/ wpc' # wpc \/ k' = k + 1]_vars

\* a command has exited non-zero and the build has written the milestones
\* up to 'done' and terminated an instance it replaces
C38_Witness_DoneAfterNonZero ==
    /\ nonzero = "yes" /\ mpc = "done" /\ Status = "done"
    /\ Logged(<<"tag", "apt-installed">>) /\ Logged(<<"tag", "installed">>)
    /\ terminated # {}

====
